---- MODULE Spec2Model ----
(***************************************************************************)
(* Model of the agentic-swarm-platform control plane: the task dependency  *)
(* graph (src/src/models/task.py), the task queue                          *)
(* (src/src/core/task_queue.py) and the orchestrator's execution loop with *)
(* its dispatched execution units (src/src/core/orchestrator.py), run on   *)
(* an asyncio event loop.                                                  *)
(***************************************************************************)
EXTENDS Integers, Sequences, FiniteSets, Bags, TLC

(***************************************************************************)
(* Bounds of the model.                                                    *)
(***************************************************************************)
\* stands for max_iterations = 100000 of _execution_loop
MaxIterations == 5
\* longest depends_on list drawn for a task
MaxDeps == 2
\* attempts the executor may fail (failure result or exception) in a run of
\* a graph of two tasks, and of three tasks; in a run of a single task every
\* attempt may fail
MaxFaultsPair == 1
MaxFaultsTriple == 0

\* task ids (UUIDs in the program); a task's title is its id's name
TaskIds == {"A", "B", "C"}
\* an id that no task of the graph carries (a dangling dependency)
DanglingId == "X"
DepIds == TaskIds \cup {DanglingId}
NoAgent == "none"
NoError == "none"

TaskStatus == {"pending", "queued", "in_progress", "completed", "failed", "blocked"}
TaskPriority == {"critical", "high", "medium", "low"}
TaskComplexity == {"small", "medium", "large"}
TaskType == {"code_generation", "documentation"}

AgentIds == {"w1", "w2"}
\* insertion order of AgentPool.agents
agent_order == <<"w1", "w2">>
NoTask == "none"
NoSelection == [task_type |-> "none", agent |-> NoAgent]

VARIABLES
    tasks,          \* TaskDependencyGraph.tasks: id -> Task
    order,          \* insertion order of the keys of TaskDependencyGraph.tasks
    ready,          \* result of the last get_ready_tasks() query
    validation,     \* result of the last validate_no_cycles() call
    lastOp,         \* the operation applied last
    agents,         \* AgentPool.agents: id -> Agent
    parallel,       \* config.orchestrator.enable_parallel_execution
    events,         \* EventBus._event_history
    task_results,   \* Orchestrator.task_results
    processing_task_ids,    \* Orchestrator.processing_task_ids
    processing_agent_ids,   \* Orchestrator.processing_agent_ids
    running_tasks,  \* Orchestrator.running_tasks: the dispatched units, each
                    \* with the position of its coroutine
    readyq,         \* the event loop's queue of callbacks that are ready to run
    loop,           \* the _execution_loop coroutine: position, iteration,
                    \* assignments left in sequential mode, inline execution
    faults,         \* attempts the executor has failed so far
    limiter,        \* the RateLimiter, the clock and the callers of acquire()
    selected,       \* result of the last get_agent_for_task() call
    bus,            \* EventBus._subscribers, the publish() under way with its
                    \* handler calls, and every event published so far
    shared,         \* the StateManager, the objects it refers to and the
                    \* references its callers hold
    client,         \* the ClaudeCodeClient, the files of its work_dir and the
                    \* create_message calls under way
    locks,          \* the asyncio locks of the components, the semaphore, and
                    \* the coroutines that take them, statement by statement
    context         \* the SharedContext and the result of the last call on it

graphVars == <<tasks, order>>
queryVars == <<ready, validation, lastOp>>
runVars == <<agents, parallel, events, task_results, processing_task_ids,
             processing_agent_ids, running_tasks, readyq, loop, faults>>
moreVars == <<locks, context>>
ioVars == <<shared, client, moreVars>>
serviceVars == <<limiter, selected, bus, ioVars>>
vars == <<tasks, order, ready, validation, lastOp, agents, parallel, events,
          task_results, processing_task_ids, processing_agent_ids,
          running_tasks, readyq, loop, faults, limiter, selected, bus, shared,
          client, locks, context>>

(***************************************************************************)
(* Sequence helpers.                                                       *)
(***************************************************************************)
Range(s) == {s[i] : i \in 1..Len(s)}

InSeq(x, s) == \E i \in 1..Len(s) : s[i] = x

\* list.index(x): the first position of x in s
IndexOf(x, s) == CHOOSE i \in 1..Len(s) : s[i] = x /\ \A j \in 1..(i - 1) : s[j] # x

\* sequences without repetition over S, of length at most n
RECURSIVE DistinctSeqs(_, _)
DistinctSeqs(S, n) ==
    IF n = 0 THEN {<<>>}
    ELSE LET shorter == DistinctSeqs(S, n - 1)
         IN  shorter \cup UNION {{Append(s, x) : x \in S \ Range(s)} :
                                    s \in {q \in shorter : Len(q) = n - 1}}

(***************************************************************************)
(* Task (src/src/models/task.py).                                          *)
(***************************************************************************)
\* TaskPriority.to_numeric
to_numeric(p) ==
    CASE p = "critical" -> 4
      [] p = "high" -> 3
      [] p = "medium" -> 2
      [] p = "low" -> 1

\* position of a complexity's string value in Python's string order:
\* "large" < "medium" < "small"
ComplexityValueOrder(c) ==
    CASE c = "large" -> 1
      [] c = "medium" -> 2
      [] c = "small" -> 3

\* Task(...) with the constructor's defaults
NewTask(id, type, priority, complexity, deps) ==
    [id |-> id, title |-> id, type |-> type, priority |-> priority,
     complexity |-> complexity, status |-> "pending", depends_on |-> deps,
     blocks |-> <<>>, assigned_agent_id |-> NoAgent, retry_count |-> 0,
     error_message |-> NoError]

\* Task.is_ready with any() in place of all()
IsReadyAnyDependency(task, completed_task_ids) ==
    /\ task.status = "pending"
    /\ \/ task.depends_on = <<>>
       \/ \E i \in 1..Len(task.depends_on) : task.depends_on[i] \in completed_task_ids

\* Task.is_ready without the dependency test
IsReadyNoDependencies(task, completed_task_ids) == task.status = "pending"

\* Task.is_ready without the status test
IsReadyNoStatus(task, completed_task_ids) ==
    \A i \in 1..Len(task.depends_on) : task.depends_on[i] \in completed_task_ids

\* Task.is_ready
is_ready(task, completed_task_ids) ==
    IF task.status # "pending" THEN FALSE
    ELSE \A i \in 1..Len(task.depends_on) : task.depends_on[i] \in completed_task_ids

\* Task.mark_in_progress
mark_in_progress(task, agent_id) ==
    [task EXCEPT !.status = "in_progress", !.assigned_agent_id = agent_id]

\* Task.mark_completed
mark_completed(task) == [task EXCEPT !.status = "completed"]

\* Task.mark_failed
mark_failed(task, error) ==
    [task EXCEPT !.status = "failed", !.error_message = error,
                 !.retry_count = @ + 1]

(***************************************************************************)
(* TaskDependencyGraph (src/src/models/task.py).                           *)
(***************************************************************************)
\* the sort key of get_ready_tasks: (-priority.to_numeric(), complexity.value)
\* a sort key without the priority
SortKeyComplexityOnly(a, b) ==
    ComplexityValueOrder(a.complexity) < ComplexityValueOrder(b.complexity)

SortKeyLess(a, b) ==
    \/ to_numeric(a.priority) > to_numeric(b.priority)
    \/ /\ to_numeric(a.priority) = to_numeric(b.priority)
       /\ ComplexityValueOrder(a.complexity) < ComplexityValueOrder(b.complexity)

\* list.sort is stable: an element goes after every element that is not
\* greater than it
RECURSIVE StableInsert(_, _, _)
StableInsert(ts, sorted, id) ==
    IF sorted = <<>> THEN <<id>>
    ELSE IF SortKeyLess(ts[id], ts[Head(sorted)])
         THEN <<id>> \o sorted
         ELSE <<Head(sorted)>> \o StableInsert(ts, Tail(sorted), id)

RECURSIVE StableSort(_, _)
StableSort(ts, ids) ==
    IF ids = <<>> THEN <<>>
    ELSE StableInsert(ts, StableSort(ts, SubSeq(ids, 1, Len(ids) - 1)), ids[Len(ids)])

completed_ids(ts) == {id \in DOMAIN ts : ts[id].status = "completed"}

\* TaskDependencyGraph.get_ready_tasks: the ids of the ready tasks, sorted
get_ready_tasks(ts, ord) ==
    LET done == completed_ids(ts)
        IsReadyId(id) == is_ready(ts[id], done)
    IN  StableSort(ts, SelectSeq(ord, IsReadyId))

\* TaskDependencyGraph.is_complete
is_complete(ts) == \A id \in DOMAIN ts : ts[id].status \in {"completed", "failed"}

\* TaskDependencyGraph.add_task: the graph after the call
add_task_tasks(ts, task) ==
    LET stored == [id \in (DOMAIN ts) \cup {task.id} |->
                      IF id = task.id THEN task ELSE ts[id]]
    IN  [id \in DOMAIN stored |->
            IF /\ InSeq(id, task.depends_on)
               /\ ~InSeq(task.id, stored[id].blocks)
            THEN [stored[id] EXCEPT !.blocks = Append(@, task.id)]
            ELSE stored[id]]

add_task_order(ts, ord, task) ==
    IF task.id \in DOMAIN ts THEN ord ELSE Append(ord, task.id)

\* the dfs closure of validate_no_cycles: the visited set after the call, and
\* the reported cycle when DependencyCycleError is raised
RECURSIVE dfs(_, _, _, _), dfs_deps(_, _, _, _, _)
\* dfs testing the visited set before the path
DfsVisitedFirst(ts, task_id, visited, path) ==
    IF task_id \in visited
    THEN [visited |-> visited, raised |-> FALSE, cycle |-> <<>>]
    ELSE dfs_deps(ts, ts[task_id].depends_on, 1, visited \cup {task_id},
                  Append(path, task_id))

\* dfs reporting the whole path in place of path[cycle_start:]
DfsWholePath(ts, task_id, visited, path) ==
    IF InSeq(task_id, path)
    THEN [visited |-> visited, raised |-> TRUE,
          cycle |-> [i \in 1..Len(path) |-> ts[path[i]].title]
                        \o <<ts[task_id].title>>]
    ELSE IF task_id \in visited
    THEN [visited |-> visited, raised |-> FALSE, cycle |-> <<>>]
    ELSE dfs_deps(ts, ts[task_id].depends_on, 1, visited \cup {task_id},
                  Append(path, task_id))

dfs(ts, task_id, visited, path) ==
    IF InSeq(task_id, path)
    THEN LET cycle_start == IndexOf(task_id, path)
             onPath == SubSeq(path, cycle_start, Len(path))
         IN  [visited |-> visited, raised |-> TRUE,
              cycle |-> [i \in 1..Len(onPath) |-> ts[onPath[i]].title]
                            \o <<ts[task_id].title>>]
    ELSE IF task_id \in visited
    THEN [visited |-> visited, raised |-> FALSE, cycle |-> <<>>]
    ELSE dfs_deps(ts, ts[task_id].depends_on, 1, visited \cup {task_id},
                  Append(path, task_id))

dfs_deps(ts, deps, i, visited, path) ==
    IF i > Len(deps)
    THEN [visited |-> visited, raised |-> FALSE, cycle |-> <<>>]
    ELSE IF deps[i] \notin DOMAIN ts
    THEN dfs_deps(ts, deps, i + 1, visited, path)
    ELSE LET r == dfs(ts, deps[i], visited, path)
         IN  IF r.raised THEN r ELSE dfs_deps(ts, deps, i + 1, r.visited, path)

RECURSIVE validate_from(_, _, _, _)
validate_from(ts, ord, i, visited) ==
    IF i > Len(ord)
    THEN [raised |-> FALSE, cycle |-> <<>>]
    ELSE IF ord[i] \in visited
    THEN validate_from(ts, ord, i + 1, visited)
    ELSE LET r == dfs(ts, ord[i], visited, <<>>)
         IN  IF r.raised THEN [raised |-> TRUE, cycle |-> r.cycle]
             ELSE validate_from(ts, ord, i + 1, r.visited)

\* TaskDependencyGraph.validate_no_cycles: returns True or raises
\* DependencyCycleError(cycle)
\* a validation that accepts every graph
ValidateAcceptsAll(ts, ord) == [raised |-> FALSE, cycle |-> <<>>]

validate_no_cycles(ts, ord) == validate_from(ts, ord, 1, {})


(***************************************************************************)
(* Agent (src/src/models/agent.py) and BaseAgent.execute_task.             *)
(***************************************************************************)
\* Agent(...) as AgentPool._create_agent builds it
NewAgent(task_type) ==
    [task_types |-> {task_type}, max_concurrent_tasks |-> 1, status |-> "idle",
     current_task_id |-> NoTask, task_queue |-> <<>>,
     tasks_completed |-> 0, tasks_failed |-> 0]

\* Agent.can_handle_task
can_handle_task(agent, task_type) == task_type \in agent.task_types

\* Agent.is_available
is_available(agent) ==
    agent.status = "idle" /\ Len(agent.task_queue) < agent.max_concurrent_tasks

\* list.remove(x): s without the first occurrence of x
RemoveFirst(s, x) ==
    IF InSeq(x, s)
    THEN SubSeq(s, 1, IndexOf(x, s) - 1) \o SubSeq(s, IndexOf(x, s) + 1, Len(s))
    ELSE s

\* a completion that leaves the agent idle whatever is queued
CompleteLeavesIdle(agent) ==
    LET q == IF agent.current_task_id # NoTask
                  /\ InSeq(agent.current_task_id, agent.task_queue)
             THEN RemoveFirst(agent.task_queue, agent.current_task_id)
             ELSE agent.task_queue
    IN  [agent EXCEPT !.task_queue = q, !.current_task_id = NoTask, !.status = "idle"]

\* Agent.complete_current_task
complete_current_task(agent) ==
    LET q == IF agent.current_task_id # NoTask
                  /\ InSeq(agent.current_task_id, agent.task_queue)
             THEN RemoveFirst(agent.task_queue, agent.current_task_id)
             ELSE agent.task_queue
    IN  IF q # <<>>
        THEN [agent EXCEPT !.task_queue = q, !.current_task_id = q[1],
                           !.status = "busy"]
        ELSE [agent EXCEPT !.task_queue = q, !.current_task_id = NoTask,
                           !.status = "idle"]

\* Agent.assign_task
assign_task(agent, task_id) ==
    IF agent.current_task_id = NoTask
    THEN [agent EXCEPT !.task_queue = Append(@, task_id),
                       !.current_task_id = task_id, !.status = "busy"]
    ELSE [agent EXCEPT !.task_queue = Append(@, task_id)]

\* BaseAgent.execute_task up to the awaited external call
execute_task_begin(agent, task_id) ==
    [agent EXCEPT !.status = "busy", !.current_task_id = task_id]

\* an except path that leaves the agent in status error
ExecuteTaskEndKeepsError(agent, outcome) ==
    IF outcome = "success"
    THEN complete_current_task(
             [agent EXCEPT !.tasks_completed = @ + 1, !.status = "idle"])
    ELSE [agent EXCEPT !.tasks_failed = @ + 1, !.status = "error"]

\* BaseAgent.execute_task after the external call: the success path, or the
\* except path (status error, then idle again)
execute_task_end(agent, outcome) ==
    IF outcome = "success"
    THEN complete_current_task(
             [agent EXCEPT !.tasks_completed = @ + 1, !.status = "idle"])
    ELSE complete_current_task(
             [agent EXCEPT !.tasks_failed = @ + 1, !.status = "idle"])

\* AgentPool.get_available_agents
get_available_agents(ags) ==
    LET Avail(a) == is_available(ags[a])
    IN  SelectSeq(agent_order, Avail)

\* the key get_agent_for_task compares agents by: the average duration (0.0
\* without history), then the length of the queue
SelectionKey(agent) ==
    <<IF agent.tasks_completed > 0 THEN agent.average_task_duration ELSE 0,
      Len(agent.task_queue)>>

\* order of Python tuples of two numbers
KeyLess(k1, k2) == k1[1] < k2[1] \/ (k1[1] = k2[1] /\ k1[2] < k2[2])

\* the agents that can handle the type and are available, in pool order
capable_agents(ags, task_type) ==
    LET Capable(a) == can_handle_task(ags[a], task_type) /\ is_available(ags[a])
    IN  SelectSeq(agent_order, Capable)

\* a selection that takes the first capable agent
FirstCapable(ags, task_type) ==
    IF capable_agents(ags, task_type) = <<>> THEN NoAgent
    ELSE capable_agents(ags, task_type)[1]

\* AgentPool.get_agent_for_task: min(capable_agents, key=...), the first of
\* the agents with the least key
get_agent_for_task(ags, task_type) ==
    LET capable == capable_agents(ags, task_type)
    IN  IF capable = <<>> THEN NoAgent
        ELSE LET least == {i \in 1..Len(capable) :
                              \A j \in 1..Len(capable) :
                                  ~KeyLess(SelectionKey(ags[capable[j]]),
                                           SelectionKey(ags[capable[i]]))}
             IN  capable[CHOOSE i \in least : \A j \in least : i <= j]

(***************************************************************************)
(* RateLimiter (src/src/services/rate_limiter.py). Time is counted in      *)
(* ticks, IntervalTicks to the 60 seconds of a refill interval, and bucket *)
(* levels in 1/IntervalTicks of a credit, so that a partial refill of      *)
(* (elapsed / 60.0) * max credits is the integer elapsed * max.            *)
(***************************************************************************)
IntervalTicks == 5
MaxTime == 6
MaxAcquires == 6

Callers == {"c1", "c2", "c3"}
EstimatedTokens == {1, 2}

\* RateLimitConfig: one or five requests per interval, with two tokens per
\* interval and one concurrent request or twenty tokens and two requests
LimiterConfigs ==
    {[max_requests_per_minute |-> n, max_tokens_per_minute |-> vk[1],
      max_concurrent_requests |-> vk[2]] : n \in {1, 5}, vk \in {<<2, 1>>, <<20, 2>>}}

DefaultLimiterConfig ==
    [max_requests_per_minute |-> 5, max_tokens_per_minute |-> 20,
     max_concurrent_requests |-> 2]

\* two requests and two tokens per interval, one concurrent request
SmallLimiterConfig ==
    [max_requests_per_minute |-> 2, max_tokens_per_minute |-> 2,
     max_concurrent_requests |-> 1]

Min(a, b) == IF a <= b THEN a ELSE b
Max(a, b) == IF a >= b THEN a ELSE b

\* RateLimiter.__init__ at time 0, with callers that have not called acquire;
\* acquired counts the debits made
NewLimiter(config) ==
    [config |-> config, now |-> 0,
     request_tokens |-> config.max_requests_per_minute * IntervalTicks,
     last_request_refill |-> 0,
     token_tokens |-> config.max_tokens_per_minute * IntervalTicks,
     last_token_refill |-> 0,
     value |-> config.max_concurrent_requests,
     waiters |-> <<>>,
     acquired |-> 0,
     callers |-> [c \in Callers |-> [pc |-> "idle", wake_at |-> 0,
                                     estimated_tokens |-> 0]]]

\* a refill that fills the request bucket whatever time has elapsed
RefillRequestsFull(L) ==
    [L EXCEPT !.request_tokens = L.config.max_requests_per_minute * IntervalTicks,
              !.last_request_refill = L.now]

\* RateLimiter._refill_request_tokens
refill_request_tokens(L) ==
    LET elapsed == L.now - L.last_request_refill
        full == L.config.max_requests_per_minute * IntervalTicks
        refill_amount == elapsed * L.config.max_requests_per_minute
    IN  IF elapsed >= IntervalTicks
        THEN [L EXCEPT !.request_tokens = full, !.last_request_refill = L.now]
        ELSE [L EXCEPT !.request_tokens = Min(@ + refill_amount, full),
                       !.last_request_refill = IF refill_amount > 0 THEN L.now ELSE @]

\* RateLimiter._refill_token_tokens
refill_token_tokens(L) ==
    LET elapsed == L.now - L.last_token_refill
        full == L.config.max_tokens_per_minute * IntervalTicks
        refill_amount == elapsed * L.config.max_tokens_per_minute
    IN  IF elapsed >= IntervalTicks
        THEN [L EXCEPT !.token_tokens = full, !.last_token_refill = L.now]
        ELSE [L EXCEPT !.token_tokens = Min(@ + refill_amount, full),
                       !.last_token_refill = IF refill_amount > 0 THEN L.now ELSE @]

\* acquire, lines 57-74: the time to wait for credit
wait_time(L, estimated_tokens) ==
    LET request_wait ==
            IF L.request_tokens < IntervalTicks
            THEN Max(0, IntervalTicks - (L.now - L.last_request_refill))
            ELSE 0
        token_wait == IntervalTicks - (L.now - L.last_token_refill)
    IN  IF L.token_tokens < estimated_tokens * IntervalTicks /\ token_wait > request_wait
        THEN token_wait
        ELSE request_wait

\* asyncio.Semaphore.locked
semaphore_locked(L) == L.value = 0 \/ L.waiters # <<>>

\* asyncio.Semaphore._wake_up_next: the first waiter whose future is pending
\* takes a slot and is scheduled
wake_up_next(L) ==
    LET pending == {i \in 1..Len(L.waiters) : L.callers[L.waiters[i]].pc = "waiting_slot"}
    IN  IF pending = {} THEN L
        ELSE LET i == CHOOSE k \in pending : \A j \in pending : k <= j
             IN  [L EXCEPT !.value = @ - 1, !.callers[L.waiters[i]].pc = "woken"]

\* a semaphore that admits every caller
SemaphoreAdmitsAll(L, c) == [L EXCEPT !.callers[c].pc = "holding"]

\* asyncio.Semaphore.acquire up to its suspension
semaphore_acquire(L, c) ==
    IF ~semaphore_locked(L)
    THEN [L EXCEPT !.value = @ - 1, !.callers[c].pc = "holding"]
    ELSE [L EXCEPT !.waiters = Append(@, c), !.callers[c].pc = "waiting_slot"]

\* asyncio.Semaphore.acquire resumed: the waiter leaves the queue and
\* acquire() returns
semaphore_resume(L, c) ==
    LET NotC(x) == x # c
        L1 == [L EXCEPT !.waiters = SelectSeq(@, NotC), !.callers[c].pc = "holding"]
    IN  IF L1.value > 0 THEN wake_up_next(L1) ELSE L1

\* RateLimiter.release
release(L, c) == wake_up_next([L EXCEPT !.value = @ + 1, !.callers[c].pc = "idle"])

\* a pass that debits both buckets whatever they hold
DebitWithoutCredit(L, c, estimated_tokens) ==
    LET L1 == refill_token_tokens(refill_request_tokens(L))
    IN  semaphore_acquire(
            [L1 EXCEPT !.request_tokens = @ - IntervalTicks,
                       !.token_tokens = @ - estimated_tokens * IntervalTicks,
                       !.acquired = @ + 1,
                       !.callers[c].estimated_tokens = estimated_tokens], c)

\* one pass of the loop of acquire, up to the next suspension: the sleep, or
\* the semaphore after the debit
acquire_pass(L, c, estimated_tokens) ==
    LET L1 == refill_token_tokens(refill_request_tokens(L))
        w == wait_time(L1, estimated_tokens)
    IN  IF w <= 0
        THEN semaphore_acquire(
                 [L1 EXCEPT !.request_tokens = @ - IntervalTicks,
                            !.token_tokens = @ - estimated_tokens * IntervalTicks,
                            !.acquired = @ + 1,
                            !.callers[c].estimated_tokens = estimated_tokens], c)
        ELSE [L1 EXCEPT !.callers[c] = [pc |-> "sleeping", wake_at |-> L1.now + w,
                                        estimated_tokens |-> estimated_tokens]]

(***************************************************************************)
(* EventBus.publish (src/src/communication/event_bus.py).                  *)
(***************************************************************************)
EventHistoryMax == 1000
EventHistoryKeep == 500

\* the event types Orchestrator._setup_event_handlers subscribes a handler to:
\* publish awaits the handlers of these, and returns at once for the others
HasHandlers(type) == type \in {"task.completed", "task.failed", "agent.idle"}

\* a publish that keeps the whole history
PublishKeepsAll(history, type, task_id, data) ==
    Append(history, [type |-> type, task_id |-> task_id, data |-> data])

\* the event history after publish(event_type, data)
publish_history(history, type, task_id, data) ==
    LET h == Append(history, [type |-> type, task_id |-> task_id, data |-> data])
    IN  IF Len(h) > EventHistoryMax
        THEN SubSeq(h, Len(h) - EventHistoryKeep + 1, Len(h))
        ELSE h

BusEventTypes == {"task.completed", "task.failed"}
Handlers == {"h1", "h2"}

\* EventBus.__init__, no publish() under way; published holds every event
\* published so far, publishes counts the calls of publish() of a behaviour
NewBus ==
    [subscribers |-> [type \in BusEventTypes |-> <<>>],
     pc |-> "idle", calls |-> <<>>, outcome |-> "none", published |-> <<>>,
     publishes |-> 0]

\* EventBus.subscribe
subscribe(B, type, handler) == [B EXCEPT !.subscribers[type] = Append(@, handler)]

\* EventBus.unsubscribe
unsubscribe(B, type, handler) ==
    [B EXCEPT !.subscribers[type] = RemoveFirst(@, handler)]

\* the calls publish would make if it called the handlers of every type
CallsOfEveryType(B, type, data) ==
    LET all == B.subscribers["task.completed"] \o B.subscribers["task.failed"]
    IN  [i \in 1..Len(all) |->
            [handler |-> all[i], type |-> type, data |-> data, state |-> "pending"]]

\* publish, lines 66-71: handler(event["data"]) for each handler subscribed
\* to the type, in order, none of them run yet
handler_calls(B, type, data) ==
    [i \in 1..Len(B.subscribers[type]) |->
        [handler |-> B.subscribers[type][i], type |-> type, data |-> data,
         state |-> "pending"]]

\* a gather that raises the first failure to its caller
GatherPropagates(calls) ==
    IF \E i \in 1..Len(calls) : calls[i].state = "failed" THEN "raised"
    ELSE IF \E i \in 1..Len(calls) : calls[i].state = "pending" THEN "waiting"
    ELSE "returned"

\* asyncio.gather(..., return_exceptions=True): it returns when every call
\* has ended, failures are results
gather(calls) ==
    IF \E i \in 1..Len(calls) : calls[i].state = "pending" THEN "waiting"
    ELSE "returned"

(***************************************************************************)
(* StateManager (src/src/communication/state_manager.py). A Python object  *)
(* is reached through references: heap holds the objects, a reference is   *)
(* an index of heap, and a registry maps an id to a reference.             *)
(***************************************************************************)
MaxObjects == 3
Registries == {"_tasks", "_agents", "_results"}
ObjectIds == {"A", "B"}
NoRef == 0

\* the values of the status field of the objects a registry holds
StatusesOf ==
    [_tasks |-> {"pending", "completed"},
     _agents |-> {"idle", "busy"},
     _results |-> {"success", "failed"}]

\* StateManager.__init__: empty registries. stored remembers, for each id of
\* a registry, the object as it was when add or update last stored it
NewStateManager ==
    [heap |-> <<>>,
     _tasks |-> [id \in {} |-> NoRef],
     _agents |-> [id \in {} |-> NoRef],
     _results |-> [id \in {} |-> NoRef],
     held |-> {},
     stored |-> [reg \in Registries |-> [id \in {} |-> NoRef]]]

\* add_task, update_task, add_agent, update_agent, add_result:
\* self._<registry>[obj.id] = obj
sm_store(sm, reg, ref) ==
    LET obj == sm.heap[ref]
    IN  [sm EXCEPT ![reg] = (obj.id :> ref) @@ @,
                   !.stored[reg] = (obj.id :> obj) @@ @]

\* get_task, get_agent, get_result: self._<registry>.get(id)
sm_get(sm, reg, id) == IF id \in DOMAIN sm[reg] THEN sm[reg][id] ELSE NoRef

\* get_all_tasks, get_all_agents, get_all_results:
\* list(self._<registry>.values())
sm_get_all(sm, reg) == {sm[reg][id] : id \in DOMAIN sm[reg]}

\* what a read of the registry shows for an id: the object behind the reference
sm_read(sm, reg, id) == sm.heap[sm[reg][id]]

(***************************************************************************)
(* ClaudeCodeClient (src/src/services/claude_code_client.py). Texts are    *)
(* sequences of characters; a file of work_dir is named by the task id and *)
(* its suffix.                                                             *)
(***************************************************************************)
\* stands for timeout=600 of the call of _wait_for_response
Timeout == 4
wait_interval == 2
MaxCalls == 2
ClientCallers == {"k1", "k2"}
Systems == {<<"s">>}
UserContents == {<<"u">>, <<"v">>}
Responses == {<<>>, <<" ">>, <<" ", "x", " ">>}
NoText == <<"none">>

\* str.strip
RECURSIVE lstrip(_)
lstrip(s) == IF s # <<>> /\ Head(s) = " " THEN lstrip(Tail(s)) ELSE s

RECURSIVE rstrip(_)
rstrip(s) ==
    IF s # <<>> /\ s[Len(s)] = " " THEN rstrip(SubSeq(s, 1, Len(s) - 1)) ELSE s

StripNothing(s) == s

strip(s) == rstrip(lstrip(s))

\* f"task_{self._task_counter:03d}"
task_id_of(counter) == <<"task", counter>>

task_file(task_id) == <<task_id, "_prompt.md">>
response_file(task_id) == <<task_id, "_response.md">>

\* the text of the prompt file
task_content(task_id, system, user_content) ==
    [task |-> task_id, system |-> system, user_content |-> user_content,
     response_file |-> response_file(task_id)]

NoCall == [pc |-> "idle", task_id |-> task_id_of(0), system |-> NoText,
           user_content |-> NoText, total_waited |-> 0, response |-> NoText]

\* ClaudeCodeClient.__init__, with an empty work_dir
NewClient ==
    [_task_counter |-> 0, _total_input_tokens |-> 0, _total_output_tokens |-> 0,
     files |-> [f \in {} |-> <<>>],
     calls |-> [c \in ClientCallers |-> NoCall]]

\* create_message, lines 60-68: the call takes the next task id
SharedTaskId(cl, c, system, user_content) ==
    [cl EXCEPT !._task_counter = @ + 1,
               !.calls[c] = [pc |-> "writing", task_id |-> task_id_of(1),
                             system |-> system, user_content |-> user_content,
                             total_waited |-> 0, response |-> NoText]]

create_message_begin(cl, c, system, user_content) ==
    [cl EXCEPT !._task_counter = @ + 1,
               !.calls[c] = [pc |-> "writing",
                             task_id |-> task_id_of(cl._task_counter + 1),
                             system |-> system, user_content |-> user_content,
                             total_waited |-> 0, response |-> NoText]]

\* create_message, lines 70-102: the prompt file is written, then
\* _wait_for_response is entered
write_task_file(cl, c) ==
    LET call == cl.calls[c]
    IN  [cl EXCEPT !.files = (task_file(call.task_id) :>
                                task_content(call.task_id, call.system,
                                             call.user_content)) @@ @,
                   !.calls[c].pc = "waiting"]

\* _wait_for_response, one pass of the while loop, and the rest of
\* create_message when the pass returns the content
wait_for_response_pass(cl, c) ==
    LET call == cl.calls[c]
        file == response_file(call.task_id)
        content == IF file \in DOMAIN cl.files THEN strip(cl.files[file])
                   ELSE <<>>
        waited == call.total_waited + wait_interval
    IN  IF content # <<>>
        THEN [cl EXCEPT
                !.calls[c].pc = "returned",
                !.calls[c].response = content,
                !._total_input_tokens =
                    @ + (Len(call.system) + Len(call.user_content)) \div 4,
                !._total_output_tokens = @ + Len(content) \div 4]
        ELSE [cl EXCEPT
                !.calls[c].total_waited = waited,
                !.calls[c].pc = IF waited < Timeout THEN "waiting"
                                ELSE "raised"]


(***************************************************************************)
(* The asyncio locks of the components. A coroutine runs from one          *)
(* suspension to the next; running is the coroutine the event loop is      *)
(* executing, and waiting[p] says what a suspended coroutine waits for.    *)
(***************************************************************************)
\* stands for max_concurrent_requests of the semaphore
LockSlots == 1
LockNames == {"task_queue", "agent_pool", "rate_limiter"}
Procs == {"loop", "u1", "u2"}
NoProc == "none"

NewLocks ==
    [owner |-> [l \in LockNames |-> NoProc],
     running |-> NoProc,
     value |-> LockSlots,
     pc |-> [p \in Procs |-> IF p = "loop" THEN "get_ready_tasks"
                             ELSE "mark_task_started"],
     waiting |-> [p \in Procs |-> "ready"]]

\* the coroutine suspends
suspend(K, p, why) == [K EXCEPT !.running = NoProc, !.waiting[p] = why]

\* async with lock: the lock is taken when it is free, the coroutine waits
\* for it otherwise
enter_lock(K, p, l, next) ==
    IF K.owner[l] = NoProc
    THEN [K EXCEPT !.owner[l] = p, !.pc[p] = next]
    ELSE suspend(K, p, l)

\* the end of the async with block
exit_lock(K, p, l, next) == [K EXCEPT !.owner[l] = NoProc, !.pc[p] = next]

\* a wait for credit that sleeps inside the lock
SleepInsideLock(K, p) == suspend([K EXCEPT !.pc[p] = "acquire_retry"], p, "sleep")

\* RateLimiter.acquire, lines 90-92: the lock is left, then the coroutine
\* sleeps and tries again
acquire_wait(K, p) == suspend(exit_lock(K, p, "rate_limiter", "acquire"), p, "sleep")

\* a unit: TaskQueue.mark_task_started, RateLimiter.acquire, the external
\* call, RateLimiter.release, TaskQueue.mark_task_completed
unit_step(K, p, enough) ==
    CASE K.pc[p] = "mark_task_started" ->
             enter_lock(K, p, "task_queue", "mark_task_started_body")
      [] K.pc[p] = "mark_task_started_body" ->
             exit_lock(K, p, "task_queue", "acquire")
      [] K.pc[p] = "acquire" ->
             enter_lock(K, p, "rate_limiter", "acquire_body")
      [] K.pc[p] = "acquire_body" ->
             IF enough THEN exit_lock(K, p, "rate_limiter", "semaphore")
             ELSE acquire_wait(K, p)
      [] K.pc[p] = "acquire_retry" ->
             exit_lock(K, p, "rate_limiter", "acquire")
      [] K.pc[p] = "semaphore" ->
             IF K.value > 0
             THEN [K EXCEPT !.value = @ - 1, !.pc[p] = "create_message"]
             ELSE suspend(K, p, "slot")
      [] K.pc[p] = "create_message" ->
             suspend([K EXCEPT !.pc[p] = "release"], p, "call")
      [] K.pc[p] = "release" ->
             [K EXCEPT !.value = @ + 1, !.pc[p] = "mark_task_completed"]
      [] K.pc[p] = "mark_task_completed" ->
             enter_lock(K, p, "task_queue", "mark_task_completed_body")
      [] K.pc[p] = "mark_task_completed_body" ->
             suspend(exit_lock(K, p, "task_queue", "done"), p, "finished")

\* the loop: TaskQueue.get_ready_tasks, AgentPool.get_available_agents, sleep
loop_step(K, p) ==
    CASE K.pc[p] = "get_ready_tasks" ->
             enter_lock(K, p, "task_queue", "get_ready_tasks_body")
      [] K.pc[p] = "get_ready_tasks_body" ->
             exit_lock(K, p, "task_queue", "get_available_agents")
      [] K.pc[p] = "get_available_agents" ->
             enter_lock(K, p, "agent_pool", "get_available_agents_body")
      [] K.pc[p] = "get_available_agents_body" ->
             suspend(exit_lock(K, p, "agent_pool", "get_ready_tasks"), p, "sleep")

\* the event loop can resume the coroutine
schedulable(K, p) ==
    /\ K.running = NoProc
    /\ CASE K.waiting[p] \in {"ready", "sleep", "call"} -> TRUE
         [] K.waiting[p] = "slot" -> K.value > 0
         [] K.waiting[p] \in LockNames -> K.owner[K.waiting[p]] = NoProc
         [] OTHER -> FALSE

(***************************************************************************)
(* SharedContext (src/src/communication/shared_context.py).                *)
(***************************************************************************)
ContextKeys == {"k", "j"}
ContextValues == {"v1", "v2"}
Scopes == {"s1", "s2"}
NoScope == "none"
Default == "default"
NoEntries == [key \in {} |-> Default]

\* SharedContext.__init__; last is the last call and what it returned
NewContext ==
    [_context |-> NoEntries,
     _scopes |-> [scope \in {} |-> NoEntries],
     last |-> [op |-> "none", key |-> "none", scope |-> NoScope, result |-> Default]]

Without(entries, key) == [k \in (DOMAIN entries) \ {key} |-> entries[k]]

Returned(X, op, key, scope, result) ==
    [X EXCEPT !.last = [op |-> op, key |-> key, scope |-> scope, result |-> result]]

\* SharedContext.set
ctx_set(X, key, value, scope) ==
    Returned(IF scope # NoScope
             THEN [X EXCEPT !._scopes =
                      (scope :> ((key :> value) @@
                                 (IF scope \in DOMAIN @ THEN @[scope] ELSE NoEntries)))
                      @@ @]
             ELSE [X EXCEPT !._context = (key :> value) @@ @],
             "set", key, scope, Default)

\* SharedContext.get
ctx_get(X, key, scope) ==
    Returned(X, "get", key, scope,
             IF scope # NoScope /\ scope \in DOMAIN X._scopes
             THEN IF key \in DOMAIN X._scopes[scope] THEN X._scopes[scope][key]
                  ELSE Default
             ELSE IF key \in DOMAIN X._context THEN X._context[key] ELSE Default)

\* SharedContext.delete
ctx_delete(X, key, scope) ==
    IF scope # NoScope /\ scope \in DOMAIN X._scopes
    THEN IF key \in DOMAIN X._scopes[scope]
         THEN Returned([X EXCEPT !._scopes[scope] = Without(@, key)],
                       "delete", key, scope, "True")
         ELSE Returned(X, "delete", key, scope, "False")
    ELSE IF key \in DOMAIN X._context
         THEN Returned([X EXCEPT !._context = Without(@, key)],
                       "delete", key, scope, "True")
         ELSE Returned(X, "delete", key, scope, "False")

\* SharedContext.has
ctx_has(X, key, scope) ==
    Returned(X, "has", key, scope,
             IF (IF scope # NoScope /\ scope \in DOMAIN X._scopes
                 THEN key \in DOMAIN X._scopes[scope]
                 ELSE key \in DOMAIN X._context)
             THEN "True" ELSE "False")

\* SharedContext.clear_scope
clear_scope(X, scope) ==
    Returned(IF scope \in DOMAIN X._scopes
             THEN [X EXCEPT !._scopes[scope] = NoEntries] ELSE X,
             "clear_scope", "none", scope, Default)

\* SharedContext.delete_scope
delete_scope(X, scope) ==
    Returned(IF scope \in DOMAIN X._scopes
             THEN [X EXCEPT !._scopes = Without(@, scope)] ELSE X,
             "delete_scope", "none", scope, Default)

InitIo ==
    /\ shared = NewStateManager
    /\ client = NewClient
    /\ locks = NewLocks
    /\ context = NewContext

(***************************************************************************)
(* The state the orchestrator's coroutines work on, as one record, and the *)
(* operations of TaskQueue and Orchestrator on it.                         *)
(***************************************************************************)
St == [tasks |-> tasks, agents |-> agents, events |-> events,
       task_results |-> task_results,
       processing_task_ids |-> processing_task_ids,
       processing_agent_ids |-> processing_agent_ids,
       running_tasks |-> running_tasks, readyq |-> readyq, loop |-> loop,
       faults |-> faults]

Commit(S) ==
    /\ tasks' = S.tasks
    /\ agents' = S.agents
    /\ events' = S.events
    /\ task_results' = S.task_results
    /\ processing_task_ids' = S.processing_task_ids
    /\ processing_agent_ids' = S.processing_agent_ids
    /\ running_tasks' = S.running_tasks
    /\ readyq' = S.readyq
    /\ loop' = S.loop
    /\ faults' = S.faults
    /\ UNCHANGED <<order, parallel, ready, validation, lastOp, serviceVars>>

publish(S, type, task_id, data) ==
    [S EXCEPT !.events = publish_history(@, type, task_id, data)]

\* TaskQueue.mark_task_started
mark_task_started(S, task_id, agent_id) ==
    IF task_id \in DOMAIN S.tasks
    THEN [S EXCEPT !.tasks[task_id] = mark_in_progress(@, agent_id)]
    ELSE S

\* TaskDependencyGraph.mark_task_completed
graph_mark_task_completed(ts, task_id) ==
    IF task_id \in DOMAIN ts
    THEN [ts EXCEPT ![task_id] = mark_completed(@)]
    ELSE ts

\* a mark_task_failed that marks every task of the graph
GraphMarkFailedAll(ts, task_id, error) ==
    [id \in DOMAIN ts |-> mark_failed(ts[id], error)]

\* TaskDependencyGraph.mark_task_failed
graph_mark_task_failed(ts, task_id, error) ==
    IF task_id \in DOMAIN ts
    THEN [ts EXCEPT ![task_id] = mark_failed(@, error)]
    ELSE ts

\* TaskQueue.mark_task_completed
mark_task_completed(S, task_id) ==
    [S EXCEPT !.tasks = graph_mark_task_completed(@, task_id)]

\* the value TaskQueue.mark_task_failed returns: True when the task was reset
\* for a retry
mark_task_failed_result(ts, task_id, should_retry) ==
    /\ task_id \in DOMAIN ts
    /\ should_retry
    /\ ts[task_id].retry_count < 3

\* TaskQueue.mark_task_failed: the graph after the call
mark_task_failed_tasks(ts, task_id, error, should_retry) ==
    IF task_id \in DOMAIN ts
    THEN IF should_retry /\ ts[task_id].retry_count < 3
         THEN [ts EXCEPT ![task_id] =
                  [@ EXCEPT !.status = "pending", !.assigned_agent_id = NoAgent,
                            !.error_message = error]]
         ELSE graph_mark_task_failed(ts, task_id, error)
    ELSE ts

mark_task_failed(S, task_id, error, should_retry) ==
    [S EXCEPT !.tasks = mark_task_failed_tasks(@, task_id, error, should_retry)]

(***************************************************************************)
(* Orchestrator._execute_task, cut at its suspension points.               *)
(***************************************************************************)
\* lines 347-362 (and 403-408 when the executor raises): the state when the
\* coroutine suspends
\* a first part that does not publish task.started
ExecuteTaskBeginUnannounced(S, task_id, agent_id, raises) ==
    LET S1 == mark_task_started(S, task_id, agent_id)
    IN  IF raises
        THEN publish(mark_task_failed(S1, task_id, "exception", TRUE),
                     "task.failed", task_id, "exception")
        ELSE [S1 EXCEPT !.agents[agent_id] = execute_task_begin(@, task_id)]

execute_task_begin_state(S, task_id, agent_id, raises) ==
    LET S1 == mark_task_started(S, task_id, agent_id)
        S2 == publish(S1, "task.started", task_id, agent_id)
    IN  IF raises
        THEN publish(mark_task_failed(S2, task_id, "exception", TRUE),
                     "task.failed", task_id, "exception")
        ELSE [S2 EXCEPT !.agents[agent_id] = execute_task_begin(@, task_id)]

\* where _execute_task stands after publishing an event: suspended on the
\* handlers when the event type has some, returning otherwise
after_publish_pc(type) == IF HasHandlers(type) THEN "awaiting_handlers" ELSE "return"

\* where _execute_task is suspended after its first part
execute_task_begin_pc(raises) ==
    IF raises THEN after_publish_pc("task.failed") ELSE "awaiting_call"

\* lines 362-401: the executor has returned a result
execute_task_return_state(S, task_id, agent_id, outcome) ==
    LET S1 == [S EXCEPT !.agents[agent_id] = execute_task_end(@, outcome)]
        S2 == [S1 EXCEPT !.task_results =
                  Append(@, [task_id |-> task_id, status |-> outcome,
                             retry_count |-> S.tasks[task_id].retry_count])]
    IN  IF outcome = "success"
        THEN publish(mark_task_completed(S2, task_id),
                     "task.completed", task_id, "artifacts")
        ELSE LET should_retry ==
                     mark_task_failed_result(S2.tasks, task_id, TRUE)
                 S3 == mark_task_failed(S2, task_id, "result_error", TRUE)
             IN  IF should_retry
                 THEN publish(S3, "task.retrying", task_id,
                              S3.tasks[task_id].retry_count + 1)
                 ELSE publish(S3, "task.failed", task_id, "result_error")

\* where _execute_task stands after that part
execute_task_return_pc(S, task_id, outcome) ==
    IF outcome = "success" THEN after_publish_pc("task.completed")
    ELSE IF mark_task_failed_result(S.tasks, task_id, TRUE)
         THEN after_publish_pc("task.retrying")
         ELSE after_publish_pc("task.failed")

(***************************************************************************)
(* Orchestrator._execution_loop and the units it dispatches, as callbacks  *)
(* of one event loop: the head of readyq runs up to its next suspension.   *)
(***************************************************************************)
NoUnit == [task |-> NoTask, agent |-> NoAgent, pc |-> "none", outcome |-> "none"]
NewUnit(task_id, agent_id, pc) ==
    [task |-> task_id, agent |-> agent_id, pc |-> pc, outcome |-> "none"]

LoopHandle == [kind |-> "loop", task |-> NoTask, agent |-> NoAgent]
UnitHandle(u) == [kind |-> "unit", task |-> u.task, agent |-> u.agent]
DoneHandle(u) == [kind |-> "done_callback", task |-> u.task, agent |-> u.agent]

Units == BagToSet(running_tasks)
ReplaceUnit(bag, old, new) == (bag (-) SetToBag({old})) (+) SetToBag({new})
Pop(S) == [S EXCEPT !.readyq = Tail(@)]

\* what the executor may do next: fail only while the run's faults allow it
FaultBudget ==
    CASE Len(order) <= 1 -> MaxIterations
      [] Len(order) = 2 -> MaxFaultsPair
      [] OTHER -> MaxFaultsTriple
Outcomes == IF faults < FaultBudget THEN {"success", "failed"} ELSE {"success"}
Raises == IF faults < FaultBudget THEN BOOLEAN ELSE {FALSE}
Fault(S, failed) == IF failed THEN [S EXCEPT !.faults = @ + 1] ELSE S

\* lines 197-199: ready tasks that are not being processed
filter_ready_tasks(ready_tasks, processing) ==
    LET Keep(t) == t \notin processing
    IN  SelectSeq(ready_tasks, Keep)

\* lines 200-204 without the filter
KeepAllAgents(available, processing) == available

\* lines 200-204: available agents that are not being processed
filter_available_agents(available, processing) ==
    LET Keep(a) == a \notin processing
    IN  SelectSeq(available, Keep)

\* a matching that gives every task the first capable agent, claimed or not
MatchFirstCapable(ts, ags, ready_tasks, available, i, assigned) ==
    LET Fitting(t) ==
            SelectSeq(available, LAMBDA a : can_handle_task(ags[a], ts[t].type))
        Matched(t) == Fitting(t) # <<>>
        matched == SelectSeq(ready_tasks, Matched)
    IN  [k \in 1..Len(matched) |-> <<matched[k], Fitting(matched[k])[1]>>]

\* Orchestrator._match_tasks_to_agents
RECURSIVE match_from(_, _, _, _, _, _)
match_from(ts, ags, ready_tasks, available, i, assigned) ==
    IF i > Len(ready_tasks) THEN <<>>
    ELSE LET task == ts[ready_tasks[i]]
             Fits(a) == can_handle_task(ags[a], task.type) /\ a \notin assigned
             fitting == SelectSeq(available, Fits)
         IN  IF fitting = <<>>
             THEN match_from(ts, ags, ready_tasks, available, i + 1, assigned)
             ELSE <<<<ready_tasks[i], fitting[1]>>>>
                  \o match_from(ts, ags, ready_tasks, available, i + 1,
                                assigned \cup {fitting[1]})

match_tasks_to_agents(ts, ags, ready_tasks, available) ==
    match_from(ts, ags, ready_tasks, available, 1, {})

\* what one pass of the loop body reads (lines 193-204, 230)
PassReady == filter_ready_tasks(get_ready_tasks(tasks, order), processing_task_ids)
PassAvailable ==
    filter_available_agents(get_available_agents(agents), processing_agent_ids)
PassAssignments == match_tasks_to_agents(tasks, agents, PassReady, PassAvailable)

\* get_stats()["by_status"][status]
by_status(ts, status) == Cardinality({id \in DOMAIN ts : ts[id].status = status})

\* lines 284-291: after the while loop
after_loop(S, exit) ==
    [S EXCEPT !.loop.exit = exit,
              !.loop.pc = IF S.running_tasks # EmptyBag THEN "gathering" ELSE "done"]

\* iteration += 1, then asyncio.sleep(execution_loop_delay)
sleep_pass(S) ==
    [S EXCEPT !.loop.iteration = @ + 1, !.loop.pc = "sleeping",
              !.loop.assignments = <<>>, !.loop.inline = NoUnit]

\* lines 261-282: progress update, iteration += 1, sleep
end_pass(S) ==
    sleep_pass(publish(S, "progress.update", NoTask,
                       <<by_status(S.tasks, "completed"),
                         by_status(S.tasks, "failed"),
                         Cardinality(DOMAIN S.tasks), S.loop.iteration>>))

\* background tasks created without recording their ids as in flight
RECURSIVE DispatchUntracked(_, _)
DispatchUntracked(S, assignments) ==
    IF assignments = <<>> THEN S
    ELSE LET u == NewUnit(Head(assignments)[1], Head(assignments)[2], "created")
         IN  DispatchUntracked(
                 [S EXCEPT !.running_tasks = @ (+) SetToBag({u}),
                           !.readyq = Append(@, UnitHandle(u))],
                 Tail(assignments))

\* lines 241-252: one background task per assignment
RECURSIVE dispatch_all(_, _)
dispatch_all(S, assignments) ==
    IF assignments = <<>> THEN S
    ELSE LET u == NewUnit(Head(assignments)[1], Head(assignments)[2], "created")
         IN  dispatch_all(
                 [S EXCEPT !.processing_task_ids = @ \cup {u.task},
                           !.processing_agent_ids = @ \cup {u.agent},
                           !.running_tasks = @ (+) SetToBag({u}),
                           !.readyq = Append(@, UnitHandle(u))],
                 Tail(assignments))

\* lines 257-258: the loop runs the next assignment inline, or ends the pass
seq_next(S, raises) ==
    IF S.loop.assignments = <<>> THEN end_pass(S)
    ELSE LET a == Head(S.loop.assignments)
         IN  [execute_task_begin_state(Fault(S, raises), a[1], a[2], raises) EXCEPT
                  !.loop.pc = "seq",
                  !.loop.assignments = Tail(@),
                  !.loop.inline = NewUnit(a[1], a[2], execute_task_begin_pc(raises))]

\* _execute_task_safe without its finally clause
FinishKeepingIds(S, u) ==
    [S EXCEPT !.running_tasks = ReplaceUnit(@, u, [u EXCEPT !.pc = "finished"]),
              !.readyq = Append(@, DoneHandle(u))]

\* the finally clause of _execute_task_safe; the finished task's done callback
\* is scheduled
execute_task_safe_finish(S, u) ==
    [S EXCEPT !.processing_task_ids = @ \ {u.task},
              !.processing_agent_ids = @ \ {u.agent},
              !.running_tasks = ReplaceUnit(@, u, [u EXCEPT !.pc = "finished"]),
              !.readyq = Append(@, DoneHandle(u))]

LoopRuns == /\ readyq # <<>>
            /\ Head(readyq) = LoopHandle
            /\ loop.pc = "ready"

LoopContinues == ~is_complete(tasks) /\ loop.iteration < MaxIterations

\* the while condition fails because every task is terminal
LoopExitComplete ==
    /\ LoopRuns
    /\ is_complete(tasks)
    /\ Commit(after_loop(Pop(St), "complete"))

\* the while condition fails because of the iteration cap
LoopExitCap ==
    /\ LoopRuns
    /\ ~is_complete(tasks)
    /\ loop.iteration >= MaxIterations
    /\ Commit(after_loop(Pop(St), "cap"))

\* lines 206-221: no ready task; the loop breaks when nothing is in progress and
\* nothing is running, and sleeps otherwise
LoopNoReadyTasks ==
    /\ LoopRuns /\ LoopContinues
    /\ PassReady = <<>>
    /\ IF by_status(tasks, "in_progress") = 0 /\ BagCardinality(running_tasks) = 0
       THEN Commit(after_loop(Pop(St), "break"))
       ELSE Commit(sleep_pass(Pop(St)))

\* lines 223-227
LoopWaitNoAgents ==
    /\ LoopRuns /\ LoopContinues
    /\ PassReady # <<>>
    /\ PassAvailable = <<>>
    /\ Commit(sleep_pass(Pop(St)))

\* lines 230-236
LoopWaitNoAssignments ==
    /\ LoopRuns /\ LoopContinues
    /\ PassReady # <<>>
    /\ PassAvailable # <<>>
    /\ PassAssignments = <<>>
    /\ Commit(sleep_pass(Pop(St)))

\* lines 239-254, 261-282
LoopDispatchParallel ==
    /\ LoopRuns /\ LoopContinues
    /\ PassReady # <<>> /\ PassAvailable # <<>>
    /\ PassAssignments # <<>>
    /\ parallel
    /\ Commit(end_pass(dispatch_all(Pop(St), PassAssignments)))

\* lines 255-259: the first assignment starts inline
LoopDispatchSequential ==
    /\ LoopRuns /\ LoopContinues
    /\ PassReady # <<>> /\ PassAvailable # <<>>
    /\ PassAssignments # <<>>
    /\ ~parallel
    /\ \E raises \in Raises :
          Commit(seq_next([Pop(St) EXCEPT !.loop.assignments = PassAssignments],
                          raises))

\* the timer of asyncio.sleep expires
TimerFires ==
    /\ loop.pc = "sleeping"
    /\ Commit([St EXCEPT !.loop.pc = "ready", !.readyq = Append(@, LoopHandle)])

\* sequential mode: the executor's call completes
SeqCallReturns ==
    /\ loop.pc = "seq" /\ loop.inline.pc = "awaiting_call"
    /\ \E outcome \in Outcomes :
          Commit([Fault(St, outcome = "failed") EXCEPT !.loop.inline.pc = "call_done",
                            !.loop.inline.outcome = outcome,
                            !.readyq = Append(@, LoopHandle)])

\* sequential mode: the event handlers have run
SeqHandlersDone ==
    /\ loop.pc = "seq" /\ loop.inline.pc = "awaiting_handlers"
    /\ Commit([St EXCEPT !.loop.inline.pc = "handlers_done",
                         !.readyq = Append(@, LoopHandle)])

\* sequential mode: _execute_task goes on after the executor's call
SeqResumeCall ==
    /\ readyq # <<>> /\ Head(readyq) = LoopHandle
    /\ loop.pc = "seq" /\ loop.inline.pc = "call_done"
    /\ LET u == loop.inline
           S1 == execute_task_return_state(Pop(St), u.task, u.agent, u.outcome)
           pc1 == execute_task_return_pc(St, u.task, u.outcome)
       IN  IF pc1 = "return"
           THEN \E raises \in Raises : Commit(seq_next(S1, raises))
           ELSE Commit([S1 EXCEPT !.loop.inline.pc = pc1])

\* sequential mode: _execute_task returns after its last publish
SeqResumeHandlers ==
    /\ readyq # <<>> /\ Head(readyq) = LoopHandle
    /\ loop.pc = "seq" /\ loop.inline.pc = "handlers_done"
    /\ \E raises \in Raises : Commit(seq_next(Pop(St), raises))

\* a dispatched unit starts: _execute_task up to the executor's call
UnitStart(u) ==
    /\ readyq # <<>> /\ Head(readyq) = UnitHandle(u)
    /\ u.pc = "created"
    /\ \E raises \in Raises :
          LET S1 == execute_task_begin_state(Fault(Pop(St), raises), u.task,
                                             u.agent, raises)
          IN  Commit([S1 EXCEPT !.running_tasks =
                         ReplaceUnit(@, u, [u EXCEPT !.pc = execute_task_begin_pc(raises)])])

\* the executor's call of a unit completes
CallReturns(u) ==
    /\ u.pc = "awaiting_call"
    /\ \E outcome \in Outcomes :
          Commit([Fault(St, outcome = "failed") EXCEPT !.running_tasks =
                      ReplaceUnit(@, u, [u EXCEPT !.pc = "call_done",
                                                  !.outcome = outcome]),
                            !.readyq = Append(@, UnitHandle(u))])

\* a unit goes on after the executor's call
UnitResumeCall(u) ==
    /\ readyq # <<>> /\ Head(readyq) = UnitHandle(u)
    /\ u.pc = "call_done"
    /\ LET S1 == execute_task_return_state(Pop(St), u.task, u.agent, u.outcome)
           pc1 == execute_task_return_pc(St, u.task, u.outcome)
       IN  IF pc1 = "return"
           THEN Commit(execute_task_safe_finish(S1, u))
           ELSE Commit([S1 EXCEPT !.running_tasks =
                           ReplaceUnit(@, u, [u EXCEPT !.pc = pc1])])

\* the event handlers a unit waits for have run
HandlersDone(u) ==
    /\ u.pc = "awaiting_handlers"
    /\ Commit([St EXCEPT !.running_tasks =
                   ReplaceUnit(@, u, [u EXCEPT !.pc = "handlers_done"]),
                         !.readyq = Append(@, UnitHandle(u))])

\* a unit returns from its last publish and leaves _execute_task_safe
UnitResumeHandlers(u) ==
    /\ readyq # <<>> /\ Head(readyq) = UnitHandle(u)
    /\ u.pc = "handlers_done"
    /\ Commit(execute_task_safe_finish(Pop(St), u))

\* line 252: running_tasks.discard, the done callback of a finished unit
DoneCallback(u) ==
    /\ readyq # <<>> /\ Head(readyq) = DoneHandle(u)
    /\ u.pc = "finished"
    /\ Commit([Pop(St) EXCEPT !.running_tasks = @ (-) SetToBag({u})])

\* lines 285-291: gather returns once every remaining unit is done
LoopGatherDone ==
    /\ loop.pc = "gathering"
    /\ \A u \in Units : u.pc = "finished"
    /\ Commit([St EXCEPT !.loop.pc = "done"])

(***************************************************************************)
(* The run: Orchestrator.execute_prd_file from the execution loop on.      *)
(***************************************************************************)
\* ResultAggregator.aggregate: the overall status
aggregate_status(results) ==
    LET successful == Cardinality({i \in 1..Len(results) : results[i].status = "success"})
        failed == Cardinality({i \in 1..Len(results) : results[i].status = "failed"})
    IN  IF failed = 0 THEN "success"
        ELSE IF successful > 0 THEN "partial"
        ELSE "failed"

\* AgentPool.shutdown
shutdown(ags) == [a \in DOMAIN ags |-> [ags[a] EXCEPT !.status = "shutdown"]]

\* execute_prd_file after _execution_loop has returned: the results are
\* aggregated, execution.completed is published and the pool is shut down
RunReturns ==
    /\ loop.pc = "done"
    /\ Commit([publish(St, "execution.completed", NoTask,
                       aggregate_status(task_results))
                  EXCEPT !.agents = shutdown(@), !.loop.pc = "returned"])

TaskSeq == <<"A", "B", "C">>

\* PRDParser._build_task_graph: the tasks in the order of the task data, then
\* each task's dependencies resolved into depends_on and the dependency's
\* blocks
build_task_graph(ord, deps, type, priority, complexity) ==
    [id \in Range(ord) |->
        [NewTask(id, type[id], priority[id], complexity[id], deps[id]) EXCEPT
            !.blocks = LET DependsOnId(t) == InSeq(id, deps[t])
                       IN  SelectSeq(ord, DependsOnId)]]

\* initial state of the coroutines of a run
InitRunState ==
    /\ events = <<[type |-> "execution.started", task_id |-> NoTask, data |-> "prd"]>>
    /\ task_results = <<>>
    /\ processing_task_ids = {}
    /\ processing_agent_ids = {}
    /\ running_tasks = EmptyBag
    /\ readyq = <<LoopHandle>>
    /\ loop = [pc |-> "ready", iteration |-> 0, exit |-> "none",
               assignments |-> <<>>, inline |-> NoUnit]
    /\ faults = 0

InitQueries ==
    /\ ready = <<>>
    /\ validation = [raised |-> FALSE, cycle |-> <<>>]
    /\ lastOp = "none"

\* the dependency lists of the graphs a run is started on: one task, two
\* tasks (independent, B after A), three tasks (fork, chain, join)
RunGraphs ==
    {<<"A" :> <<>>, <<"A">>>>,
     <<"A" :> <<>> @@ "B" :> <<>>, <<"A", "B">>>>,
     <<"A" :> <<>> @@ "B" :> <<"A">>, <<"A", "B">>>>,
     <<"A" :> <<>> @@ "B" :> <<"A">> @@ "C" :> <<"A">>, <<"A", "B", "C">>>>,
     <<"A" :> <<>> @@ "B" :> <<"A">> @@ "C" :> <<"B">>, <<"A", "B", "C">>>>,
     <<"A" :> <<>> @@ "B" :> <<>> @@ "C" :> <<"A", "B">>, <<"A", "B", "C">>>>}

\* the dependency lists of the cyclic graphs the task data of a PRD can
\* describe: a task that depends on itself, two tasks that depend on each
\* other, a ring of three
CyclicRunGraphs ==
    {<<"A" :> <<"A">>, <<"A">>>>,
     <<"A" :> <<"B">> @@ "B" :> <<"A">>, <<"A", "B">>>>,
     <<"A" :> <<"C">> @@ "B" :> <<"A">> @@ "C" :> <<"B">>, <<"A", "B", "C">>>>}

\* AgentPool.__init__: no agent exists before initialize()
EmptyPool == [a \in {} |-> NewAgent("code_generation")]

\* AgentPool.initialize: a code agent, and a second agent of the configured type
initialize(t2) ==
    [a \in AgentIds |-> NewAgent(IF a = "w1" THEN "code_generation" ELSE t2)]

\* execute_prd_file has published execution.started; tasks and order hold the
\* graph _build_task_graph makes of the task data, which may be cyclic; the
\* pool is empty and the loop has not been entered
Init ==
    /\ \E g \in RunGraphs \cup CyclicRunGraphs, typeB \in TaskType :
          /\ order = g[2]
          /\ Len(order) # 2 => typeB = "code_generation"
          /\ tasks = build_task_graph(order, g[1],
                        [id \in Range(order) |->
                            IF id = "B" THEN typeB ELSE "code_generation"],
                        [id \in Range(order) |-> "medium"],
                        [id \in Range(order) |-> "medium"])
    /\ agents = EmptyPool
    /\ parallel \in BOOLEAN
    /\ events = <<[type |-> "execution.started", task_id |-> NoTask, data |-> "prd"]>>
    /\ task_results = <<>>
    /\ processing_task_ids = {}
    /\ processing_agent_ids = {}
    /\ running_tasks = EmptyBag
    /\ readyq = <<>>
    /\ loop = [pc |-> "start", iteration |-> 0, exit |-> "none",
               assignments |-> <<>>, inline |-> NoUnit]
    /\ faults = 0
    /\ limiter = NewLimiter(DefaultLimiterConfig)
    /\ selected = NoSelection
    /\ bus = NewBus
    /\ InitIo
    /\ InitQueries

\* execute_prd_file, steps 2 to 5: slice_into_tasks validates the graph; a
\* cycle raises, execution.failed is published and the pool, still empty, is
\* shut down; otherwise the pool is initialized and the loop is entered
ExecutePrdFile ==
    /\ loop.pc = "start"
    /\ LET v == validate_no_cycles(tasks, order)
       IN  /\ validation' = v
           /\ lastOp' = "validate_no_cycles"
           /\ IF v.raised
              THEN /\ events' = publish_history(events, "execution.failed", NoTask,
                                                "PRDParseError")
                   /\ agents' = shutdown(agents)
                   /\ loop' = [loop EXCEPT !.pc = "aborted"]
                   /\ readyq' = readyq
              ELSE /\ \E t2 \in TaskType : agents' = initialize(t2)
                   /\ loop' = [loop EXCEPT !.pc = "ready"]
                   /\ readyq' = <<LoopHandle>>
                   /\ events' = events
    /\ UNCHANGED <<tasks, order, ready, parallel, task_results, processing_task_ids,
                   processing_agent_ids, running_tasks, faults, serviceVars>>

Next ==
    \/ ExecutePrdFile
    \/ LoopExitComplete
    \/ LoopExitCap
    \/ LoopNoReadyTasks
    \/ LoopWaitNoAgents
    \/ LoopWaitNoAssignments
    \/ LoopDispatchParallel
    \/ LoopDispatchSequential
    \/ TimerFires
    \/ SeqCallReturns
    \/ SeqHandlersDone
    \/ SeqResumeCall
    \/ SeqResumeHandlers
    \/ \E u \in Units : UnitStart(u)
    \/ \E u \in Units : CallReturns(u)
    \/ \E u \in Units : UnitResumeCall(u)
    \/ \E u \in Units : HandlersDone(u)
    \/ \E u \in Units : UnitResumeHandlers(u)
    \/ \E u \in Units : DoneCallback(u)
    \/ LoopGatherDone
    \/ RunReturns

Spec == Init /\ [][Next]_vars

(***************************************************************************)
(* The task graph used directly: tasks are added, the graph is validated   *)
(* and queried, tasks are marked completed.                                *)
(***************************************************************************)
\* the run's variables where no run is going on
NoRun ==
    /\ agents = [a \in AgentIds |-> NewAgent("code_generation")]
    /\ parallel = TRUE
    /\ InitRunState
    /\ limiter = NewLimiter(DefaultLimiterConfig)
    /\ selected = NoSelection
    /\ bus = NewBus
    /\ InitIo

EmptyGraph == [id \in {} |-> NewTask(id, "code_generation", "medium", "medium", <<>>)]

\* the ids a depends_on list is drawn from, in a fixed order
DepSeq == <<"A", "B", "C", "X">>

\* the depends_on lists of at most n ids, in the order of DepSeq
DepLists(n) ==
    {SelectSeq(DepSeq, LAMBDA x : x \in D) : D \in {E \in SUBSET DepIds : Cardinality(E) <= n}}

\* the graph after add_task for each task of ord in turn
RECURSIVE add_tasks(_, _, _)
add_tasks(ts, ord, deps) ==
    IF ord = <<>> THEN ts
    ELSE add_tasks(add_task_tasks(ts, NewTask(Head(ord), "code_generation", "medium",
                                              "medium", deps[Head(ord)])),
                   Tail(ord), deps)

\* graph.add_task(task) for a task whose id is not in the graph
AddTask(id, deps) ==
    /\ id \notin DOMAIN tasks
    /\ LET task == NewTask(id, "code_generation", "medium", "medium", deps)
       IN  /\ tasks' = add_task_tasks(tasks, task)
           /\ order' = add_task_order(tasks, order, task)
    /\ lastOp' = "add_task"
    /\ UNCHANGED <<ready, validation, runVars, serviceVars>>

\* graph.validate_no_cycles()
ValidateNoCycles ==
    /\ validation' = validate_no_cycles(tasks, order)
    /\ lastOp' = "validate_no_cycles"
    /\ UNCHANGED <<tasks, order, ready, runVars, serviceVars>>

\* graph.get_ready_tasks()
GetReadyTasks ==
    /\ ready' = get_ready_tasks(tasks, order)
    /\ lastOp' = "get_ready_tasks"
    /\ UNCHANGED <<tasks, order, validation, runVars, serviceVars>>

\* graph.mark_task_completed(task_id)
MarkTaskCompleted(id) ==
    /\ tasks' = graph_mark_task_completed(tasks, id)
    /\ lastOp' = "mark_task_completed"
    /\ UNCHANGED <<order, ready, validation, runVars, serviceVars>>

\* graphs are built task by task, in any order of the ids, with depends_on
\* lists of at most MaxDeps distinct ids, and validated at any time
CycleInit ==
    /\ tasks = EmptyGraph
    /\ order = <<>>
    /\ InitQueries
    /\ NoRun

CycleNext ==
    \/ \E id \in TaskIds, deps \in DistinctSeqs(DepIds, MaxDeps) : AddTask(id, deps)
    \/ ValidateNoCycles

CycleSpec == CycleInit /\ [][CycleNext]_vars

\* graphs of three tasks under every assignment of the statuses the program
\* sets, queried and completed task by task
ReadyStatuses == {"pending", "in_progress", "completed", "failed"}

ReadyInit ==
    /\ order = TaskSeq
    /\ \E deps \in [TaskIds -> DepLists(MaxDeps)], st \in [TaskIds -> ReadyStatuses] :
          tasks = [id \in TaskIds |->
                      [add_tasks(EmptyGraph, order, deps)[id] EXCEPT !.status = st[id]]]
    /\ InitQueries
    /\ NoRun

ReadyNext ==
    \/ GetReadyTasks
    \/ \E id \in TaskIds \cup {DanglingId} : MarkTaskCompleted(id)

ReadySpec == ReadyInit /\ [][ReadyNext]_vars

\* graphs of three tasks in every insertion order, with every assignment of
\* priorities, two complexities, and B and C free or waiting for A; queried
\* before and after A is completed
PriorityComplexities == {"small", "large"}

PriorityInit ==
    /\ \E ord \in DistinctSeqs(TaskIds, Cardinality(TaskIds)),
          pr \in [TaskIds -> TaskPriority],
          cx \in [TaskIds -> PriorityComplexities],
          depB \in {<<>>, <<"A">>}, depC \in {<<>>, <<"A">>} :
          /\ Len(ord) = Cardinality(TaskIds)
          /\ order = ord
          /\ tasks = build_task_graph(ord, "A" :> <<>> @@ "B" :> depB @@ "C" :> depC,
                                      [id \in TaskIds |-> "code_generation"], pr, cx)
    /\ InitQueries
    /\ NoRun

PriorityNext ==
    \/ GetReadyTasks
    \/ MarkTaskCompleted("A")

PrioritySpec == PriorityInit /\ [][PriorityNext]_vars

\* callers of one RateLimiter on one event loop: each calls acquire(), later
\* release(), and may call again; the clock advances between steps
InFlight(L) == {c \in Callers : L.callers[c].pc \in {"sleeping"}}

\* a caller enters acquire(estimated_tokens)
Acquire(c, estimated_tokens) ==
    /\ limiter.callers[c].pc = "idle"
    /\ limiter.acquired + Cardinality(InFlight(limiter)) < MaxAcquires
    /\ limiter' = acquire_pass(limiter, c, estimated_tokens)
    /\ UNCHANGED <<graphVars, queryVars, runVars, selected, bus, ioVars>>

\* asyncio.sleep(wait_time) is over: the loop of acquire goes round again
SleepOver(c) ==
    /\ limiter.callers[c].pc = "sleeping"
    /\ limiter.now >= limiter.callers[c].wake_at
    /\ limiter' = acquire_pass(limiter, c, limiter.callers[c].estimated_tokens)
    /\ UNCHANGED <<graphVars, queryVars, runVars, selected, bus, ioVars>>

\* a waiter that was given a slot runs again and returns from acquire()
SlotGranted(c) ==
    /\ limiter.callers[c].pc = "woken"
    /\ limiter' = semaphore_resume(limiter, c)
    /\ UNCHANGED <<graphVars, queryVars, runVars, selected, bus, ioVars>>

\* a caller that has returned from acquire() calls release()
Release(c) ==
    /\ limiter.callers[c].pc = "holding"
    /\ limiter' = release(limiter, c)
    /\ UNCHANGED <<graphVars, queryVars, runVars, selected, bus, ioVars>>

\* time passes
Tick ==
    /\ limiter.now < MaxTime
    /\ limiter' = [limiter EXCEPT !.now = @ + 1]
    /\ UNCHANGED <<graphVars, queryVars, runVars, selected, bus, ioVars>>

LimiterInit ==
    /\ tasks = EmptyGraph
    /\ order = <<>>
    /\ InitQueries
    /\ agents = EmptyPool
    /\ parallel = TRUE
    /\ InitRunState
    /\ \E config \in LimiterConfigs : limiter = NewLimiter(config)
    /\ selected = NoSelection
    /\ bus = NewBus
    /\ InitIo

LimiterNext ==
    \/ \E c \in Callers, estimated_tokens \in EstimatedTokens : Acquire(c, estimated_tokens)
    \/ \E c \in Callers : SleepOver(c)
    \/ \E c \in Callers : SlotGranted(c)
    \/ \E c \in Callers : Release(c)
    \/ Tick

LimiterSpec == LimiterInit /\ [][LimiterNext]_vars

\* a pool of two agents of either type, with capacity one or two and with or
\* without history, whose agents are assigned tasks and complete them in
\* any order, and which is asked for an agent at any time
MaxQueue == 2

\* tasks_completed and average_task_duration as update_on_success leaves them
AgentHistories == {<<0, 0>>, <<1, 2>>, <<2, 1>>}

PoolAgent(task_type, capacity, history) ==
    [average_task_duration |-> history[2]]
        @@ [NewAgent(task_type) EXCEPT !.max_concurrent_tasks = capacity,
                                       !.tasks_completed = history[1]]

\* AgentPool.assign_task
AssignTask(a, task_id) ==
    /\ Len(agents[a].task_queue) < MaxQueue
    /\ agents' = [agents EXCEPT ![a] = assign_task(@, task_id)]
    /\ lastOp' = "assign_task"
    /\ UNCHANGED <<graphVars, ready, validation, parallel, events, task_results,
                   processing_task_ids, processing_agent_ids, running_tasks,
                   readyq, loop, faults, serviceVars>>

\* agent.complete_current_task()
CompleteCurrentTask(a) ==
    /\ agents' = [agents EXCEPT ![a] = complete_current_task(@)]
    /\ lastOp' = "complete_current_task"
    /\ UNCHANGED <<graphVars, ready, validation, parallel, events, task_results,
                   processing_task_ids, processing_agent_ids, running_tasks,
                   readyq, loop, faults, serviceVars>>

\* pool.get_agent_for_task(task) for a task of the type
GetAgentForTask(task_type) ==
    /\ selected' = [task_type |-> task_type,
                    agent |-> get_agent_for_task(agents, task_type)]
    /\ lastOp' = "get_agent_for_task"
    /\ UNCHANGED <<graphVars, ready, validation, runVars, limiter, bus, ioVars>>

PoolInit ==
    /\ tasks = EmptyGraph
    /\ order = <<>>
    /\ InitQueries
    /\ \E type \in [AgentIds -> TaskType], capacity \in [AgentIds -> {1, 2}],
          history \in [AgentIds -> AgentHistories] :
          agents = [a \in AgentIds |-> PoolAgent(type[a], capacity[a], history[a])]
    /\ parallel = TRUE
    /\ InitRunState
    /\ limiter = NewLimiter(DefaultLimiterConfig)
    /\ selected = NoSelection
    /\ bus = NewBus
    /\ InitIo

PoolNext ==
    \/ \E a \in AgentIds, task_id \in {"A", "B"} : AssignTask(a, task_id)
    \/ \E a \in AgentIds : CompleteCurrentTask(a)
    \/ \E task_type \in TaskType : GetAgentForTask(task_type)

PoolSpec == PoolInit /\ [][PoolNext]_vars

\* a pool whose agents execute tasks for callers of execute_task_on_agent,
\* and which is shut down at any time, also while executions are under way
MaxExecutions == 2

\* the agent runs no execution
NotExecuting(a) == \A u \in BagToSet(running_tasks) : u.agent # a

\* pool.execute_task_on_agent(task, agent) up to the awaited external call,
\* for an agent the caller has found available
ExecuteTaskOnAgent(a, task_id) ==
    /\ is_available(agents[a])
    /\ NotExecuting(a)
    /\ agents[a].tasks_completed + agents[a].tasks_failed < MaxExecutions
    /\ agents' = [agents EXCEPT ![a] = execute_task_begin(@, task_id)]
    /\ running_tasks' = running_tasks (+) SetToBag({NewUnit(task_id, a, "awaiting_call")})
    /\ lastOp' = "execute_task"
    /\ UNCHANGED <<graphVars, ready, validation, parallel, events, task_results,
                   processing_task_ids, processing_agent_ids, readyq, loop, faults,
                   serviceVars>>

\* the external call of an execution returns or raises, and execute_task
\* runs to its end
ExecuteTaskReturns(a, outcome) ==
    /\ \E u \in BagToSet(running_tasks) :
          /\ u.agent = a
          /\ running_tasks' = running_tasks (-) SetToBag({u})
    /\ agents' = [agents EXCEPT ![a] = execute_task_end(@, outcome)]
    /\ lastOp' = "execute_task_returns"
    /\ UNCHANGED <<graphVars, ready, validation, parallel, events, task_results,
                   processing_task_ids, processing_agent_ids, readyq, loop, faults,
                   serviceVars>>

\* pool.shutdown()
PoolShutdown ==
    /\ agents' = shutdown(agents)
    /\ lastOp' = "shutdown"
    /\ UNCHANGED <<graphVars, ready, validation, parallel, events, task_results,
                   processing_task_ids, processing_agent_ids, running_tasks,
                   readyq, loop, faults, serviceVars>>

ShutdownInit ==
    /\ tasks = EmptyGraph
    /\ order = <<>>
    /\ InitQueries
    /\ \E t2 \in TaskType : agents = initialize(t2)
    /\ parallel = TRUE
    /\ InitRunState
    /\ limiter = NewLimiter(DefaultLimiterConfig)
    /\ selected = NoSelection
    /\ bus = NewBus
    /\ InitIo

ShutdownNext ==
    \/ \E a \in AgentIds, task_id \in TaskIds : ExecuteTaskOnAgent(a, task_id)
    \/ \E a \in AgentIds, outcome \in {"success", "failed"} : ExecuteTaskReturns(a, outcome)
    \/ PoolShutdown

ShutdownSpec == ShutdownInit /\ [][ShutdownNext]_vars

\* one publisher and the handlers of an EventBus: publish() appends to the
\* history and gathers the calls of the handlers subscribed to the type;
\* each call ends normally or by raising
MaxPublishes == 4
MaxSubscribers == 2

\* the history after the publishes numbered lo to hi, one after the other
RECURSIVE PublishRange(_, _, _)
PublishRange(history, lo, hi) ==
    IF lo > hi THEN history
    ELSE IF lo = hi THEN publish_history(history, "progress.update", NoTask, lo)
    ELSE LET mid == (lo + hi) \div 2
             first == PublishRange(history, lo, mid)
         IN  IF Len(first) >= 0 THEN PublishRange(first, mid + 1, hi) ELSE first

\* the history after n publishes to a new bus
HistoryAfter(n) == PublishRange(<<>>, 1, n)

\* every event of the n publishes
PublishedAfter(n) ==
    [i \in 1..n |-> [type |-> "progress.update", task_id |-> NoTask, data |-> i]]

\* bus.subscribe(type, handler)
Subscribe(type, handler) ==
    /\ bus.pc = "idle"
    /\ Len(bus.subscribers[type]) < MaxSubscribers
    /\ bus' = subscribe(bus, type, handler)
    /\ lastOp' = "subscribe"
    /\ UNCHANGED <<graphVars, ready, validation, runVars, limiter, selected, ioVars>>

\* bus.unsubscribe(type, handler)
Unsubscribe(type, handler) ==
    /\ bus.pc = "idle"
    /\ InSeq(handler, bus.subscribers[type])
    /\ bus' = unsubscribe(bus, type, handler)
    /\ lastOp' = "unsubscribe"
    /\ UNCHANGED <<graphVars, ready, validation, runVars, limiter, selected, ioVars>>

\* bus.publish(type, data) up to the awaited gather, or to its return when
\* the type has no handler; data is the number of the publish
Publish(type) ==
    /\ bus.pc = "idle"
    /\ bus.publishes < MaxPublishes
    /\ LET data == Len(bus.published) + 1
           calls == handler_calls(bus, type, data)
       IN  /\ events' = publish_history(events, type, NoTask, data)
           /\ bus' = [bus EXCEPT
                         !.published = Append(@, [type |-> type, task_id |-> NoTask,
                                                  data |-> data]),
                         !.publishes = @ + 1,
                         !.calls = calls,
                         !.pc = IF calls = <<>> THEN "idle" ELSE "gathering",
                         !.outcome = IF calls = <<>> THEN "returned" ELSE "none"]
           /\ lastOp' = IF calls = <<>> THEN "publish_returns" ELSE "publish"
    /\ UNCHANGED <<graphVars, ready, validation, agents, parallel, task_results,
                   processing_task_ids, processing_agent_ids, running_tasks,
                   readyq, loop, faults, limiter, selected, ioVars>>

\* a handler's coroutine runs to its end, or raises
HandlerRuns(i, raises) ==
    /\ bus.pc = "gathering"
    /\ i \in 1..Len(bus.calls)
    /\ bus.calls[i].state = "pending"
    /\ bus' = [bus EXCEPT !.calls[i].state = IF raises THEN "failed" ELSE "done"]
    /\ lastOp' = "handler"
    /\ UNCHANGED <<graphVars, ready, validation, runVars, limiter, selected, ioVars>>

\* the gather ends and publish() returns, or raises what the gather raises
PublishEnds ==
    /\ bus.pc = "gathering"
    /\ gather(bus.calls) # "waiting"
    /\ bus' = [bus EXCEPT !.pc = "idle", !.outcome = gather(bus.calls)]
    /\ lastOp' = "publish_returns"
    /\ UNCHANGED <<graphVars, ready, validation, runVars, limiter, selected, ioVars>>

\* a bus that has published some number of events, none or up to the
\* overflow of the history and beyond, and publishes more
HistoryLengths ==
    {0, EventHistoryKeep, EventHistoryMax - 1, EventHistoryMax,
     EventHistoryMax + EventHistoryKeep - 1}

HistoryInit ==
    /\ tasks = EmptyGraph
    /\ order = <<>>
    /\ InitQueries
    /\ agents = EmptyPool
    /\ parallel = TRUE
    /\ task_results = <<>>
    /\ processing_task_ids = {}
    /\ processing_agent_ids = {}
    /\ running_tasks = EmptyBag
    /\ readyq = <<>>
    /\ loop = [pc |-> "start", iteration |-> 0, exit |-> "none",
               assignments |-> <<>>, inline |-> NoUnit]
    /\ faults = 0
    /\ limiter = NewLimiter(DefaultLimiterConfig)
    /\ selected = NoSelection
    /\ \E n \in HistoryLengths :
          /\ events = HistoryAfter(n)
          /\ bus = [NewBus EXCEPT !.published = PublishedAfter(n)]
    /\ InitIo

HistoryNext == \E type \in BusEventTypes : Publish(type)

HistorySpec == HistoryInit /\ [][HistoryNext]_vars

BusInit ==
    /\ tasks = EmptyGraph
    /\ order = <<>>
    /\ InitQueries
    /\ agents = EmptyPool
    /\ parallel = TRUE
    /\ task_results = <<>>
    /\ processing_task_ids = {}
    /\ processing_agent_ids = {}
    /\ running_tasks = EmptyBag
    /\ readyq = <<>>
    /\ loop = [pc |-> "start", iteration |-> 0, exit |-> "none",
               assignments |-> <<>>, inline |-> NoUnit]
    /\ faults = 0
    /\ limiter = NewLimiter(DefaultLimiterConfig)
    /\ selected = NoSelection
    /\ events = <<>>
    /\ bus = NewBus
    /\ InitIo

BusNext ==
    \/ \E type \in BusEventTypes, handler \in Handlers : Subscribe(type, handler)
    \/ \E type \in BusEventTypes, handler \in Handlers : Unsubscribe(type, handler)
    \/ \E type \in BusEventTypes : Publish(type)
    \/ \E i \in 1..MaxSubscribers, raises \in BOOLEAN : HandlerRuns(i, raises)
    \/ PublishEnds

BusSpec == BusInit /\ [][BusNext]_vars

(***************************************************************************)
(* The StateManager used by callers: a caller builds an object and adds    *)
(* it, reads the registries, changes a field of an object a read returned, *)
(* and passes such an object to update.                                    *)
(***************************************************************************)
\* add_task(Task(...)), add_agent(Agent(...)), add_result(TaskResult(...)),
\* and update_task or update_agent with an object built by the caller
SmAdd(reg, id, status) ==
    /\ Len(shared.heap) < MaxObjects
    /\ LET obj == [kind |-> reg, id |-> id, status |-> status]
           sm == [shared EXCEPT !.heap = Append(@, obj)]
       IN  shared' = sm_store(sm, reg, Len(sm.heap))
    /\ UNCHANGED <<graphVars, queryVars, runVars, limiter, selected, bus, client, moreVars>>

\* update_task(task), update_agent(agent) with an object a read returned
SmUpdate(ref) ==
    /\ ref \in shared.held
    /\ shared.heap[ref].kind # "_results"
    /\ shared' = sm_store(shared, shared.heap[ref].kind, ref)
    /\ UNCHANGED <<graphVars, queryVars, runVars, limiter, selected, bus, client, moreVars>>

\* get_task(id), get_agent(id), get_result(id): the caller keeps what it got
SmGet(reg, id) ==
    /\ sm_get(shared, reg, id) # NoRef
    /\ shared' = [shared EXCEPT !.held = @ \cup {sm_get(shared, reg, id)}]
    /\ UNCHANGED <<graphVars, queryVars, runVars, limiter, selected, bus, client, moreVars>>

\* get_all_tasks(), get_all_agents(), get_all_results()
SmGetAll(reg) ==
    /\ shared' = [shared EXCEPT !.held = @ \cup sm_get_all(shared, reg)]
    /\ shared' # shared
    /\ UNCHANGED <<graphVars, queryVars, runVars, limiter, selected, bus, client, moreVars>>

\* the caller assigns the status field of an object a read returned
CallerMutates(ref, status) ==
    /\ ref \in shared.held
    /\ status \in StatusesOf[shared.heap[ref].kind]
    /\ status # shared.heap[ref].status
    /\ shared' = [shared EXCEPT !.heap[ref].status = status]
    /\ UNCHANGED <<graphVars, queryVars, runVars, limiter, selected, bus, client, moreVars>>

SharedInit ==
    /\ tasks = EmptyGraph
    /\ order = <<>>
    /\ InitQueries
    /\ NoRun

SharedNext ==
    \/ \E reg \in Registries, id \in ObjectIds :
          \E status \in StatusesOf[reg] : SmAdd(reg, id, status)
    \/ \E ref \in 1..MaxObjects : SmUpdate(ref)
    \/ \E reg \in Registries, id \in ObjectIds : SmGet(reg, id)
    \/ \E reg \in Registries : SmGetAll(reg)
    \/ \E ref \in 1..MaxObjects, reg \in Registries :
          \E status \in StatusesOf[reg] : CallerMutates(ref, status)

SharedSpec == SharedInit /\ [][SharedNext]_vars

(***************************************************************************)
(* The ClaudeCodeClient used by concurrent callers, and the user who       *)
(* writes the response files.                                              *)
(***************************************************************************)
\* a caller enters create_message
CreateMessage(c, system, user_content) ==
    /\ client.calls[c].pc \in {"idle", "returned", "raised"}
    /\ client._task_counter < MaxCalls
    /\ client' = create_message_begin(client, c, system, user_content)
    /\ UNCHANGED <<graphVars, queryVars, runVars, limiter, selected, bus, shared, moreVars>>

\* the call resumes after aiofiles.open
WriteTaskFile(c) ==
    /\ client.calls[c].pc = "writing"
    /\ client' = write_task_file(client, c)
    /\ UNCHANGED <<graphVars, queryVars, runVars, limiter, selected, bus, shared, moreVars>>

\* the call resumes in _wait_for_response
WaitForResponsePass(c) ==
    /\ client.calls[c].pc = "waiting"
    /\ client' = wait_for_response_pass(client, c)
    /\ UNCHANGED <<graphVars, queryVars, runVars, limiter, selected, bus, shared, moreVars>>

\* the user saves a response file
UserSaves(n, content) ==
    /\ client' = [client EXCEPT
                    !.files = (response_file(task_id_of(n)) :> content) @@ @]
    /\ client' # client
    /\ UNCHANGED <<graphVars, queryVars, runVars, limiter, selected, bus, shared, moreVars>>

ClientInit ==
    /\ tasks = EmptyGraph
    /\ order = <<>>
    /\ InitQueries
    /\ NoRun

ClientNext ==
    \/ \E c \in ClientCallers, system \in Systems, user_content \in UserContents :
          CreateMessage(c, system, user_content)
    \/ \E c \in ClientCallers : WriteTaskFile(c)
    \/ \E c \in ClientCallers : WaitForResponsePass(c)
    \/ \E n \in 1..MaxCalls, content \in Responses : UserSaves(n, content)

\* the event loop resumes every call that is not waiting for another
ClientSpec ==
    /\ ClientInit
    /\ [][ClientNext]_vars
    /\ \A c \in ClientCallers :
          WF_vars(WriteTaskFile(c) \/ WaitForResponsePass(c))

(***************************************************************************)
(* add_task called for an id the graph already holds.                      *)
(***************************************************************************)
\* add_task(task) where task.id is a key of the graph
AddTaskAgain(id, priority, deps) ==
    /\ id \in DOMAIN tasks
    /\ LET task == NewTask(id, "code_generation", priority, "medium", deps)
       IN  /\ tasks' = add_task_tasks(tasks, task)
           /\ order' = add_task_order(tasks, order, task)
    /\ lastOp' = "add_task"
    /\ UNCHANGED <<ready, validation, runVars, serviceVars>>

DuplicateIds == {"A", "B"}
DuplicateDeps == {<<>>, <<"A">>, <<"B">>}

DuplicateNext ==
    \/ \E id \in DuplicateIds, deps \in DuplicateDeps : AddTask(id, deps)
    \/ \E id \in DuplicateIds, priority \in {"medium", "high"},
          deps \in DuplicateDeps : AddTaskAgain(id, priority, deps)

DuplicateSpec == CycleInit /\ [][DuplicateNext]_vars

(***************************************************************************)
(* The TaskQueue used as the orchestrator uses it: a task is started when  *)
(* it is ready, and completed or failed when it is in progress. The caller *)
(* of mark_task_failed chooses should_retry.                               *)
(***************************************************************************)
QueueMarkStarted(id, agent_id) ==
    /\ id \in Range(get_ready_tasks(tasks, order))
    /\ tasks' = mark_task_started(St, id, agent_id).tasks
    /\ lastOp' = "mark_task_started"
    /\ UNCHANGED <<order, ready, validation, runVars, serviceVars>>

QueueMarkCompleted(id) ==
    /\ id \in DOMAIN tasks
    /\ tasks[id].status = "in_progress"
    /\ tasks' = mark_task_completed(St, id).tasks
    /\ lastOp' = "mark_task_completed"
    /\ UNCHANGED <<order, ready, validation, runVars, serviceVars>>

QueueMarkFailed(id, should_retry) ==
    /\ id \in DOMAIN tasks
    /\ tasks[id].status = "in_progress"
    /\ tasks' = mark_task_failed_tasks(tasks, id, "error", should_retry)
    /\ lastOp' = "mark_task_failed"
    /\ UNCHANGED <<order, ready, validation, runVars, serviceVars>>

QueueInit ==
    /\ \E g \in RunGraphs, pr \in [TaskIds -> {"medium", "high"}] :
          /\ order = g[2]
          /\ tasks = build_task_graph(g[2], g[1], [id \in TaskIds |-> "code_generation"],
                                      pr, [id \in TaskIds |-> "medium"])
    /\ InitQueries
    /\ NoRun

QueueNext ==
    \/ GetReadyTasks
    \/ \E id \in TaskIds, agent_id \in AgentIds : QueueMarkStarted(id, agent_id)
    \/ \E id \in TaskIds : QueueMarkCompleted(id)
    \/ \E id \in TaskIds, should_retry \in BOOLEAN : QueueMarkFailed(id, should_retry)

QueueSpec == QueueInit /\ [][QueueNext]_vars

(***************************************************************************)
(* One matching of the ready tasks to the available agents.                *)
(***************************************************************************)
MatchPriorities == {"low", "medium", "critical"}

\* lines 193-204 and 230 of _execution_loop: the assignments of one pass
MatchTasksToAgents ==
    /\ loop' = [loop EXCEPT !.assignments = PassAssignments]
    /\ lastOp' = "match_tasks_to_agents"
    /\ UNCHANGED <<graphVars, ready, validation, agents, parallel, events,
                   task_results, processing_task_ids, processing_agent_ids,
                   running_tasks, readyq, faults, serviceVars>>

\* an agent starts or ends a task of another client of the pool
AgentStatusChanges(a) ==
    /\ agents' = [agents EXCEPT ![a].status = IF @ = "idle" THEN "busy" ELSE "idle"]
    /\ lastOp' = "status"
    /\ UNCHANGED <<graphVars, ready, validation, parallel, events,
                   task_results, processing_task_ids, processing_agent_ids,
                   running_tasks, readyq, loop, faults, serviceVars>>

MatchInit ==
    /\ \E ord \in DistinctSeqs(TaskIds, Cardinality(TaskIds)),
          type \in [TaskIds -> TaskType], pr \in [TaskIds -> MatchPriorities],
          depC \in {<<>>, <<"A">>} :
          /\ Len(ord) = Cardinality(TaskIds)
          /\ order = ord
          /\ tasks = build_task_graph(ord, "A" :> <<>> @@ "B" :> <<>> @@ "C" :> depC,
                                      type, pr, [id \in TaskIds |-> "medium"])
    /\ InitQueries
    /\ \E t1, t2 \in TaskType :
          agents = [a \in AgentIds |-> NewAgent(IF a = "w1" THEN t1 ELSE t2)]
    /\ parallel = TRUE
    /\ InitRunState
    /\ limiter = NewLimiter(DefaultLimiterConfig)
    /\ selected = NoSelection
    /\ bus = NewBus
    /\ InitIo

MatchNext ==
    \/ MatchTasksToAgents
    \/ \E a \in AgentIds : AgentStatusChanges(a)

MatchSpec == MatchInit /\ [][MatchNext]_vars

(***************************************************************************)
(* The loop and two units taking the locks of the task queue, the agent    *)
(* pool and the rate limiter.                                              *)
(***************************************************************************)
\* the event loop resumes a coroutine
Schedule(p) ==
    /\ schedulable(locks, p)
    /\ locks' = [locks EXCEPT !.running = p, !.waiting[p] = "running"]
    /\ UNCHANGED <<graphVars, queryVars, runVars, limiter, selected, bus, shared,
                   client, context>>

\* the running unit executes up to its next statement
UnitStep(p, enough) ==
    /\ p # "loop"
    /\ locks.running = p
    /\ locks' = unit_step(locks, p, enough)
    /\ UNCHANGED <<graphVars, queryVars, runVars, limiter, selected, bus, shared,
                   client, context>>

\* the running loop executes up to its next statement
LoopStep(p) ==
    /\ p = "loop"
    /\ locks.running = p
    /\ locks' = loop_step(locks, p)
    /\ UNCHANGED <<graphVars, queryVars, runVars, limiter, selected, bus, shared,
                   client, context>>

LockInit ==
    /\ tasks = EmptyGraph
    /\ order = <<>>
    /\ InitQueries
    /\ NoRun

LockNext ==
    \/ \E p \in Procs : Schedule(p)
    \/ \E p \in Procs, enough \in BOOLEAN : UnitStep(p, enough)
    \/ \E p \in Procs : LoopStep(p)

LockSpec == LockInit /\ [][LockNext]_vars

(***************************************************************************)
(* The SharedContext used by its callers.                                  *)
(***************************************************************************)
ContextSet(key, value, scope) ==
    /\ context' = ctx_set(context, key, value, scope)
    /\ UNCHANGED <<graphVars, queryVars, runVars, limiter, selected, bus, shared,
                   client, locks>>

ContextGet(key, scope) ==
    /\ context' = ctx_get(context, key, scope)
    /\ UNCHANGED <<graphVars, queryVars, runVars, limiter, selected, bus, shared,
                   client, locks>>

ContextDelete(key, scope) ==
    /\ context' = ctx_delete(context, key, scope)
    /\ UNCHANGED <<graphVars, queryVars, runVars, limiter, selected, bus, shared,
                   client, locks>>

ContextHas(key, scope) ==
    /\ context' = ctx_has(context, key, scope)
    /\ UNCHANGED <<graphVars, queryVars, runVars, limiter, selected, bus, shared,
                   client, locks>>

ContextClearScope(scope) ==
    /\ context' = clear_scope(context, scope)
    /\ UNCHANGED <<graphVars, queryVars, runVars, limiter, selected, bus, shared,
                   client, locks>>

ContextDeleteScope(scope) ==
    /\ context' = delete_scope(context, scope)
    /\ UNCHANGED <<graphVars, queryVars, runVars, limiter, selected, bus, shared,
                   client, locks>>

ContextInit ==
    /\ tasks = EmptyGraph
    /\ order = <<>>
    /\ InitQueries
    /\ NoRun

ContextNext ==
    \/ \E key \in ContextKeys, value \in ContextValues, scope \in Scopes \cup {NoScope} :
          ContextSet(key, value, scope)
    \/ \E key \in ContextKeys, scope \in Scopes \cup {NoScope} : ContextGet(key, scope)
    \/ \E key \in ContextKeys, scope \in Scopes \cup {NoScope} : ContextDelete(key, scope)
    \/ \E key \in ContextKeys, scope \in Scopes \cup {NoScope} : ContextHas(key, scope)
    \/ \E scope \in Scopes : ContextClearScope(scope)
    \/ \E scope \in Scopes : ContextDeleteScope(scope)

ContextSpec == ContextInit /\ [][ContextNext]_vars

(***************************************************************************)
(* The callers of one RateLimiter while time goes on without end. Every    *)
(* time acquire() reads is a difference from the present, so the limiter   *)
(* is kept with the present as the origin of time: when time passes, the   *)
(* refill times and the wake-up times move one tick into the past. A       *)
(* refill time of IntervalTicks or more ago gives the full refill, and a   *)
(* wake-up time that has passed lets the sleeper run.                      *)
(***************************************************************************)
\* the estimates of the callers: below, at and above the capacity of the
\* volume bucket of SmallLimiterConfig
CostsAroundCapacity ==
    {SmallLimiterConfig.max_tokens_per_minute - 1,
     SmallLimiterConfig.max_tokens_per_minute,
     SmallLimiterConfig.max_tokens_per_minute + 1}

\* time passes
TimePasses ==
    /\ limiter' =
          [limiter EXCEPT
              !.last_request_refill = Max(@ - 1, 0 - IntervalTicks),
              !.last_token_refill = Max(@ - 1, 0 - IntervalTicks),
              !.callers = [c \in Callers |->
                              [limiter.callers[c] EXCEPT !.wake_at = Max(@ - 1, 0)]]]
    /\ UNCHANGED <<graphVars, queryVars, runVars, selected, bus, ioVars>>

EndlessInit ==
    /\ tasks = EmptyGraph
    /\ order = <<>>
    /\ InitQueries
    /\ agents = EmptyPool
    /\ parallel = TRUE
    /\ InitRunState
    /\ limiter = NewLimiter(SmallLimiterConfig)
    /\ selected = NoSelection
    /\ bus = NewBus
    /\ InitIo

EndlessNext ==
    \/ \E c \in Callers, estimated_tokens \in CostsAroundCapacity :
          Acquire(c, estimated_tokens)
    \/ \E c \in Callers : SleepOver(c)
    \/ \E c \in Callers : SlotGranted(c)
    \/ \E c \in Callers : Release(c)
    \/ TimePasses

\* time advances, the event loop resumes every caller whose sleep is over
\* or whose slot was granted, and every holder of a slot releases it
EndlessSpec ==
    /\ EndlessInit
    /\ [][EndlessNext]_vars
    /\ WF_vars(TimePasses)
    /\ \A c \in Callers :
          WF_vars(SleepOver(c)) /\ WF_vars(SlotGranted(c)) /\ WF_vars(Release(c))

(***************************************************************************)
(* Properties of the task graph.                                           *)
(***************************************************************************)
\* the tasks of the graph that task id depends on
DependsOnPresent(ts, id) == {d \in DOMAIN ts : InSeq(d, ts[id].depends_on)}

\* the unmet dependencies of a task: ids of its depends_on that are not
\* completed tasks of the graph
Unmet(ts, id) ==
    {d \in Range(ts[id].depends_on) : d \notin DOMAIN ts \/ ts[d].status # "completed"}

\* the result of a query holds exactly the pending tasks without unmet
\* dependency, each once
ReadyIffPendingAndDepsCompleted ==
    lastOp = "get_ready_tasks" =>
        /\ \A id \in DOMAIN tasks :
              InSeq(id, ready) <=> (tasks[id].status = "pending" /\ Unmet(tasks, id) = {})
        /\ Range(ready) \subseteq DOMAIN tasks
        /\ Cardinality(Range(ready)) = Len(ready)

\* marking the only unmet dependency of a pending task completed, that
\* dependency being another task, puts the task in the result of the next
\* query
SoleDependencyCompleted ==
    \A d \in DOMAIN tasks :
        (tasks[d].status # "completed" /\ tasks'[d].status = "completed") =>
            \A t \in DOMAIN tasks \ {d} :
                (tasks[t].status = "pending" /\ Unmet(tasks, t) = {d})
                   => /\ ~InSeq(t, get_ready_tasks(tasks, order))
                      /\ InSeq(t, get_ready_tasks(tasks', order'))

\* C7: get_ready_tasks() returns a task iff it is pending and every id of
\* its depends_on is a completed task, and completing the single unmet
\* dependency of a pending task makes the task ready
C7_ReadyIff == []ReadyIffPendingAndDepsCompleted /\ [][SoleDependencyCompleted]_vars

\* a query has returned a task whose dependency is completed, and has left
\* out a pending task whose only unmet dependency is a dangling id
C7_Witness ==
    /\ lastOp = "get_ready_tasks"
    /\ \E t \in DOMAIN tasks :
          /\ InSeq(t, ready) /\ tasks[t].depends_on # <<>>
    /\ \E t \in DOMAIN tasks :
          /\ ~InSeq(t, ready) /\ tasks[t].status = "pending"
          /\ Unmet(tasks, t) = {DanglingId}

\* the depends_on edges between tasks of the graph contain a cycle: some
\* task reaches itself along one or more edges
RECURSIVE ReachableIn(_, _, _)
ReachableIn(ts, from, n) ==
    IF n = 0 THEN from
    ELSE LET next == UNION {DependsOnPresent(ts, id) : id \in from}
         IN  next \cup ReachableIn(ts, next, n - 1)

HasCycle(ts) ==
    \E id \in DOMAIN ts :
        id \in ReachableIn(ts, DependsOnPresent(ts, id), Cardinality(DOMAIN ts))

\* C9: validate_no_cycles() raises the cycle error iff the depends_on edges
\* between tasks of the graph contain a cycle, in every insertion order
C9_RaisesIffCycle ==
    lastOp = "validate_no_cycles" => (validation.raised <=> HasCycle(tasks))

\* a graph of three tasks whose first-added task lies on no cycle, with a
\* dangling dependency, has been found cyclic
C9_Witness ==
    /\ lastOp = "validate_no_cycles"
    /\ validation.raised
    /\ Len(order) = 3
    /\ ~InSeq(tasks[order[1]].title, validation.cycle)
    /\ \E id \in DOMAIN tasks : InSeq(DanglingId, tasks[id].depends_on)

\* the graph with the edges A -> B -> C -> A: A depends on B, B on C, C on A
RingABC ==
    /\ DOMAIN tasks = {"A", "B", "C"}
    /\ tasks["A"].depends_on = <<"B">>
    /\ tasks["B"].depends_on = <<"C">>
    /\ tasks["C"].depends_on = <<"A">>

\* the reported cycle starts and ends with the same title, repeats no other
\* title, and each consecutive pair is a depends_on edge
CycleIsClosedPath ==
    LET c == validation.cycle
    IN  /\ Len(c) >= 2
        /\ c[1] = c[Len(c)]
        /\ \A i, j \in 1..(Len(c) - 1) : i # j => c[i] # c[j]
        /\ \A i \in 1..(Len(c) - 1) :
              c[i] \in DOMAIN tasks /\ InSeq(c[i + 1], tasks[c[i]].depends_on)

\* C10 as stated: the reported cycle is a closed path of edges, and for the
\* graph A -> B -> C -> A it is A, B, C, A
C10_ExactlyABCA ==
    (lastOp = "validate_no_cycles" /\ validation.raised) =>
        /\ CycleIsClosedPath
        /\ RingABC => validation.cycle = <<"A", "B", "C", "A">>

\* C10: the reported cycle is a closed path of edges; for the graph
\* A -> B -> C -> A it starts at the task that was added first, and is
\* A, B, C, A when that task is A
C10_CycleFromFirstAdded ==
    (lastOp = "validate_no_cycles" /\ validation.raised) =>
        /\ CycleIsClosedPath
        /\ RingABC =>
              /\ validation.cycle[1] = order[1]
              /\ Len(validation.cycle) = 4
              /\ order[1] = "A" => validation.cycle = <<"A", "B", "C", "A">>

\* the graph A -> B -> C -> A, with B added first, has been validated
C10_Witness ==
    /\ lastOp = "validate_no_cycles"
    /\ RingABC
    /\ order[1] = "B"
    /\ validation.cycle = <<"B", "C", "A", "B">>

(***************************************************************************)
(* Properties of a run.                                                    *)
(***************************************************************************)
\* the dispatched units that have not left _execute_task_safe
AliveUnits == {u \in Units : u.pc # "finished"}

\* the failed attempts of a task: each one publishes task.retrying or
\* task.failed
Failures(id) ==
    Cardinality({i \in 1..Len(events) :
                    /\ events[i].type \in {"task.retrying", "task.failed"}
                    /\ events[i].task_id = id})

DepsCompleted(ts, id) ==
    \A i \in 1..Len(ts[id].depends_on) :
        /\ ts[id].depends_on[i] \in DOMAIN ts
        /\ ts[ts[id].depends_on[i]].status = "completed"

\* C1: a step that marks a task in_progress is taken only where every task
\* in its depends_on is completed, and leaves them completed
C1_StartsAfterDependencies ==
    [][\A id \in DOMAIN tasks :
          (tasks[id].status # "in_progress" /\ tasks'[id].status = "in_progress")
             => DepsCompleted(tasks, id) /\ DepsCompleted(tasks', id)]_vars

\* a task with a dependency is in_progress on a busy worker
C1_Witness ==
    \E id \in DOMAIN tasks :
        /\ tasks[id].status = "in_progress"
        /\ tasks[id].depends_on # <<>>
        /\ tasks[id].assigned_agent_id \in AgentIds
        /\ agents[tasks[id].assigned_agent_id].status = "busy"

\* C2: in parallel mode no two units that are alive share a task or a
\* worker, and no unit is alive twice
C2_NoDoubleMatching ==
    parallel =>
        /\ \A u \in AliveUnits : CopiesIn(u, running_tasks) = 1
        /\ \A u1, u2 \in AliveUnits :
              u1 # u2 => u1.task # u2.task /\ u1.agent # u2.agent

\* two units are alive at once, and a unit that failed is still alive while
\* its task is pending again
C2_Witness ==
    /\ parallel
    /\ Cardinality(AliveUnits) = 2
    /\ \E u \in AliveUnits : tasks[u.task].status = "pending" /\ Failures(u.task) > 0

\* the claim of C3 about one failed attempt: it resets the task to pending,
\* clears the worker, records the error and adds one to retry_count
RetryStepCountsUp ==
    \A id \in DOMAIN tasks :
        (tasks[id].status = "in_progress" /\ tasks'[id].status = "pending")
           => /\ tasks'[id].assigned_agent_id = NoAgent
              /\ tasks'[id].error_message # NoError
              /\ tasks'[id].retry_count = tasks[id].retry_count + 1

\* the claim of C3 about four failed attempts
FourthFailureIsFinal ==
    \A id \in DOMAIN tasks :
        Failures(id) >= 4
           => /\ tasks[id].status = "failed"
              /\ tasks[id].retry_count = 3
              /\ ~InSeq(id, get_ready_tasks(tasks, order))

\* C3: every failed attempt of a task with retry_count < 3 adds one to
\* retry_count, and a task that has failed four times is failed with
\* retry_count 3 and never ready again
C3_BoundedRetries == [][RetryStepCountsUp]_vars /\ []FourthFailureIsFinal

\* every task type of the graph has a worker that can handle it
EveryTypeHasWorker ==
    \A id \in DOMAIN tasks : \E a \in DOMAIN agents : can_handle_task(agents[a], tasks[id].type)

RECURSIVE BehindFailed(_, _)
BehindFailed(id, depth) ==
    /\ depth > 0
    /\ \E i \in 1..Len(tasks[id].depends_on) :
          LET d == tasks[id].depends_on[i]
          IN  d \in DOMAIN tasks
                 /\ (tasks[d].status = "failed" \/ BehindFailed(d, depth - 1))

\* every pass of the loop so far has dispatched work (it has published its
\* progress update): none was spent waiting
NoIdlePass ==
    Cardinality({i \in 1..Len(events) : events[i].type = "progress.update"})
        = loop.iteration

\* C4: a run whose graph needs fewer passes than the cap allows, even with
\* four attempts for each task, and which never waited, has left the loop by
\* itself, with every task completed, failed, or pending behind a failed task
C4_Converges ==
    (/\ loop.pc = "done"
     /\ EveryTypeHasWorker
     /\ 4 * Cardinality(DOMAIN tasks) < MaxIterations
     /\ NoIdlePass)
       => /\ loop.exit # "cap"
          /\ \A id \in DOMAIN tasks :
                \/ tasks[id].status \in {"completed", "failed"}
                \/ tasks[id].status = "pending"
                      /\ BehindFailed(id, Cardinality(DOMAIN tasks))

\* what a finished attempt leaves on its task
OutcomeApplied(u, task) ==
    IF u.outcome = "success" THEN task.status = "completed"
    ELSE /\ task.status \in {"pending", "failed"}
         /\ task.error_message # NoError
         /\ task.assigned_agent_id = NoAgent \/ task.status = "failed"

\* the ids of the in-flight sets are those of the units that are alive
InFlightAreAlive ==
    /\ processing_task_ids = {u.task : u \in AliveUnits}
    /\ processing_agent_ids = {u.agent : u \in AliveUnits}

\* a step in which a unit leaves _execute_task_safe has applied the outcome
\* to its task and leaves the loop where it is
FinishAppliesOutcome ==
    \A u \in AliveUnits :
        u.task \notin processing_task_ids'
           => /\ u.agent \notin processing_agent_ids'
              /\ OutcomeApplied(u, tasks'[u.task])
              /\ loop' = loop

\* C5: whatever the outcome of a unit (success, failure result, exception),
\* when it finishes its outcome is on the task, the loop is untouched, and
\* its ids are in no in-flight set
C5_UnitsLeaveNoIds == []InFlightAreAlive /\ [][FinishAppliesOutcome]_vars

\* a unit in which an exception was raised has finished; its task is pending
\* again and the loop still runs
C5_Witness ==
    \E u \in Units :
        /\ u.pc = "finished" /\ u.outcome = "none"
        /\ u.task \notin processing_task_ids
        /\ u.agent \notin processing_agent_ids
        /\ tasks[u.task].status = "pending"
        /\ loop.pc \in {"ready", "sleeping"}

\* C6: a task that is completed or failed keeps its status in every step
C6_TerminalIsAbsorbing ==
    [][\A id \in DOMAIN tasks :
          tasks[id].status \in {"completed", "failed"}
             => tasks'[id].status = tasks[id].status]_vars

\* a task is completed while the unit of a task that depends on it has been
\* started, failed and started again
C6_Witness ==
    \E id \in DOMAIN tasks, u \in AliveUnits :
        /\ tasks[id].status = "completed"
        /\ InSeq(id, tasks[u.task].depends_on)
        /\ tasks[u.task].status = "in_progress"
        /\ Failures(u.task) > 0

\* the run of C8: parallel mode, A without dependencies, B and C depending
\* on A, two workers that handle every task, and no attempt has failed
ForkRun ==
    /\ parallel
    /\ order = <<"A", "B", "C">>
    /\ tasks["A"].depends_on = <<>>
    /\ tasks["B"].depends_on = <<"A">>
    /\ tasks["C"].depends_on = <<"A">>
    /\ DOMAIN agents = AgentIds
    /\ \A a \in AgentIds, id \in DOMAIN tasks : can_handle_task(agents[a], tasks[id].type)
    /\ faults = 0

\* a pass of the loop dispatches A alone, or B and C together once A is
\* completed, and C starts while B is in progress
ForkDispatch ==
    LET new == processing_task_ids' \ processing_task_ids
    IN  /\ new # {} =>
              \/ new = {"A"}
              \/ new = {"B", "C"} /\ tasks["A"].status = "completed"
                    /\ Cardinality(processing_agent_ids' \ processing_agent_ids) = 2
        /\ (tasks["C"].status # "in_progress" /\ tasks'["C"].status = "in_progress")
              => tasks'["B"].status = "in_progress"

\* the run has ended with three completed tasks, three results, one
\* task.completed event for each task, and the status success
ForkResult ==
    /\ \A id \in DOMAIN tasks : tasks[id].status = "completed"
    /\ Len(task_results) = 3
    /\ \A id \in DOMAIN tasks :
          Cardinality({i \in 1..Len(events) :
                          events[i].type = "task.completed" /\ events[i].task_id = id}) = 1
    /\ events[Len(events)].type = "execution.completed"
    /\ events[Len(events)].data = "success"

\* C8: in the run of the fork graph where every execution succeeds, A is
\* dispatched alone, then B and C in one pass to the two workers, running
\* concurrently, and a run that left the loop because the graph was complete
\* has the result of ForkResult
C8_ForkTrace ==
    /\ [][(ForkRun /\ faults' = 0) => ForkDispatch]_vars
    /\ []((ForkRun /\ loop.pc = "returned" /\ loop.exit = "complete") => ForkResult)

(***************************************************************************)
(* The order of get_ready_tasks.                                           *)
(***************************************************************************)
\* the priorities of the tasks of a list of ids
PrioritiesOf(ids) == [i \in 1..Len(ids) |-> tasks[ids[i]].priority]

\* the ids of order whose task is ready now
ReadyInOrder ==
    LET IsReadyNow(id) == is_ready(tasks[id], completed_ids(tasks))
    IN  SelectSeq(order, IsReadyNow)

\* C12: what get_ready_tasks() has returned holds each ready task once, and
\* its priorities never increase along the list: critical before high before
\* medium before low; three ready tasks of priorities low, critical and high
\* come back as critical, high, low
C12_ReadyByPriority ==
    lastOp = "get_ready_tasks" =>
        /\ Range(ready) = Range(ReadyInOrder) /\ Len(ready) = Len(ReadyInOrder)
        /\ \A i, j \in 1..Len(ready) :
              i < j => to_numeric(tasks[ready[i]].priority)
                          >= to_numeric(tasks[ready[j]].priority)
        /\ Range(PrioritiesOf(ReadyInOrder)) = {"low", "critical", "high"}
              => PrioritiesOf(ready) = <<"critical", "high", "low">>

\* tasks added as low, critical, high are all ready and have been returned
\* in another order than they were added
C12_Witness ==
    /\ lastOp = "get_ready_tasks"
    /\ PrioritiesOf(ReadyInOrder) = <<"low", "critical", "high">>
    /\ Len(ready) = 3
    /\ ready # ReadyInOrder

(***************************************************************************)
(* The events of an attempt.                                               *)
(***************************************************************************)
OutcomeEventTypes == {"task.completed", "task.retrying", "task.failed"}

\* the attempt events published for a task, in publication order
AttemptEvents(id) ==
    LET OfTask(ev) == ev.task_id = id
                         /\ ev.type \in OutcomeEventTypes \cup {"task.started"}
    IN  SelectSeq(events, OfTask)

AttemptEventTypes(id) == [i \in 1..Len(AttemptEvents(id)) |-> AttemptEvents(id)[i].type]

\* C13: the attempt events of a task alternate, task.started first: every
\* attempt's task.started is published before its outcome event, and every
\* outcome event directly follows the task.started of its own attempt
C13_StartedBeforeOutcome ==
    \A id \in DOMAIN tasks :
        \A i \in 1..Len(AttemptEvents(id)) :
            IF i % 2 = 1
            THEN AttemptEvents(id)[i].type = "task.started"
            ELSE AttemptEvents(id)[i].type \in OutcomeEventTypes

\* a task has been attempted twice: retried after a failed result, then
\* completed
C13_Witness ==
    \E id \in DOMAIN tasks :
          AttemptEventTypes(id) =
              <<"task.started", "task.retrying", "task.started", "task.completed">>

\* an attempt that raised has published task.started, then task.failed
C13_WitnessException ==
    \E id \in DOMAIN tasks :
        /\ Len(AttemptEvents(id)) >= 2
        /\ AttemptEventTypes(id)[2] = "task.failed"

(***************************************************************************)
(* The rate limiter.                                                       *)
(***************************************************************************)
\* the callers that have returned from acquire() and not yet called release()
Holders == {c \in Callers : limiter.callers[c].pc = "holding"}

\* the callers a released slot has been handed to, not yet running again
Woken == {c \in Callers : limiter.callers[c].pc = "woken"}

\* C14: in every state the callers between acquire() and release() are at
\* most max_concurrent_requests, whatever the buckets hold; every slot is
\* either free, held, or handed to a waiter
C14_HoldersWithinLimit ==
    /\ Cardinality(Holders) <= limiter.config.max_concurrent_requests
    /\ Cardinality(Holders) + Cardinality(Woken) + limiter.value
          = limiter.config.max_concurrent_requests

\* every slot is held, a further caller has been debited and waits for a
\* slot, and the request bucket is below one credit
C14_Witness ==
    /\ limiter.config.max_concurrent_requests = 2
    /\ Cardinality(Holders) = 2
    /\ \E c \in Callers : limiter.callers[c].pc = "waiting_slot"
    /\ limiter.request_tokens < IntervalTicks

\* a call of acquire() made while no time has elapsed since construction,
\* fewer than max_requests_per_minute debits made, volume credit for its
\* estimate and a free slot returns without suspending
ImmediateWhileCredit ==
    \A c \in Callers :
        (/\ limiter.callers[c].pc = "idle"
         /\ limiter'.callers[c].pc # "idle"
         /\ limiter.now = 0
         /\ limiter.acquired < limiter.config.max_requests_per_minute
         /\ limiter.token_tokens >= limiter'.callers[c].estimated_tokens * IntervalTicks
         /\ ~semaphore_locked(limiter))
            => /\ limiter'.callers[c].pc = "holding"
               /\ limiter'.acquired = limiter.acquired + 1

\* C15: from the full request bucket of the constructor, acquire() calls made
\* at time 0 with volume credit and a free slot succeed at once while fewer
\* than N have succeeded, and more than N have succeeded only when at least
\* interval / N has elapsed
C15_BurstThenRefill ==
    /\ [][ImmediateWhileCredit]_vars
    /\ [](limiter.acquired > limiter.config.max_requests_per_minute
             => limiter.now * limiter.config.max_requests_per_minute >= IntervalTicks)

\* with five requests per interval the sixth acquire() has succeeded at the
\* first tick at which a fifth of the interval has elapsed
C15_Witness ==
    /\ limiter.config.max_requests_per_minute = 5
    /\ limiter.acquired = 6
    /\ limiter.now > 0
    /\ (limiter.now - 1) * 5 < IntervalTicks

(***************************************************************************)
(* The pool's agents.                                                      *)
(***************************************************************************)
\* the agents that can handle the type and are available
CapableSet(task_type) ==
    {a \in AgentIds : can_handle_task(agents[a], task_type) /\ is_available(agents[a])}

\* the duration an agent counts for in the selection
CountedDuration(a) ==
    IF agents[a].tasks_completed > 0 THEN agents[a].average_task_duration ELSE 0

\* w1 has history at average 2, w2 has none, both are idle and can handle
\* the type asked for
HistoryAgainstNone ==
    /\ agents["w1"].tasks_completed > 0 /\ agents["w1"].average_task_duration = 2
    /\ agents["w2"].tasks_completed = 0
    /\ CapableSet(selected.task_type) = {"w1", "w2"}

\* C16: what get_agent_for_task has returned is none exactly when no agent
\* is capable and available; otherwise it is such an agent, none of them has
\* a lower counted duration, and none of equal duration has fewer queued
\* tasks; an agent without history is preferred to one at average 2
C16_SelectsFastest ==
    lastOp = "get_agent_for_task" =>
        LET capable == CapableSet(selected.task_type)
            r == selected.agent
        IN  /\ r = NoAgent <=> capable = {}
            /\ r # NoAgent =>
                  /\ r \in capable
                  /\ \A b \in capable :
                        /\ CountedDuration(r) <= CountedDuration(b)
                        /\ CountedDuration(r) = CountedDuration(b)
                              => Len(agents[r].task_queue) <= Len(agents[b].task_queue)
            /\ HistoryAgainstNone => r = "w2"

\* the agent without history has been chosen, though the agent with history
\* comes first in the pool
C16_Witness ==
    /\ lastOp = "get_agent_for_task"
    /\ HistoryAgainstNone
    /\ selected.agent = "w2"

\* C17: an agent's status is busy exactly when its queue holds a task and
\* idle exactly when it holds none; it is available exactly when it is idle
\* with fewer queued tasks than its capacity; an agent that has no task
\* is idle and available
C17_StatusFollowsQueue ==
    \A a \in AgentIds :
        /\ agents[a].status = "busy" <=> agents[a].task_queue # <<>>
        /\ agents[a].status = "idle" <=> agents[a].task_queue = <<>>
        /\ is_available(agents[a])
              <=> /\ agents[a].status = "idle"
                  /\ Len(agents[a].task_queue) < agents[a].max_concurrent_tasks
        /\ agents[a].task_queue = <<>> => is_available(agents[a])
        /\ (agents[a].max_concurrent_tasks = 1 /\ agents[a].task_queue # <<>>)
              => ~is_available(agents[a])

\* an agent of capacity 1 is idle and available again after completing its
\* task, while the other agent is busy with one task and has one queued
C17_Witness ==
    /\ lastOp = "complete_current_task"
    /\ agents["w1"].max_concurrent_tasks = 1
    /\ is_available(agents["w1"])
    /\ agents["w2"].status = "busy"
    /\ Len(agents["w2"].task_queue) = 1
    /\ agents["w2"].max_concurrent_tasks = 2

(***************************************************************************)
(* Shutdown of the pool.                                                   *)
(***************************************************************************)
\* C18: shutdown() leaves every agent with status shutdown, an agent that
\* has status shutdown keeps it in every later step, whatever execution of
\* it ends afterwards, and get_available_agents() then returns no agent
C18_ShutdownIsTerminal ==
    [][/\ lastOp' = "shutdown" =>
             \A a \in DOMAIN agents' : agents'[a].status = "shutdown"
       /\ \A a \in DOMAIN agents :
             agents[a].status = "shutdown" =>
                 /\ agents'[a].status = "shutdown"
                 /\ ~InSeq(a, get_available_agents(agents'))]_vars

(***************************************************************************)
(* The event bus.                                                          *)
(***************************************************************************)
\* the last n events published
LastPublished(n) ==
    SubSeq(bus.published, Len(bus.published) - n + 1, Len(bus.published))

\* a publish on a history of EventHistoryMax events leaves the
\* EventHistoryKeep most recent events, the last of them the one published
TrimKeepsMostRecent ==
    (Len(events) = EventHistoryMax /\ bus'.publishes = bus.publishes + 1)
        => /\ Len(events') = EventHistoryKeep
           /\ events' = SubSeq(bus'.published,
                               Len(bus'.published) - EventHistoryKeep + 1,
                               Len(bus'.published))
           /\ events'[EventHistoryKeep] = bus'.published[Len(bus'.published)]

\* C19: the history never holds more than EventHistoryMax events; as long as
\* no more than that have been published it is every event published, in
\* order; later it is the most recent events in order; and the publish that
\* overflows it leaves exactly the EventHistoryKeep most recent
C19_HistoryBounded ==
    /\ [](/\ Len(events) <= EventHistoryMax
          /\ Len(bus.published) <= EventHistoryMax => events = bus.published
          /\ Len(events) <= Len(bus.published)
          /\ events = LastPublished(Len(events)))
    /\ [][TrimKeepsMostRecent]_vars

\* the publish that overflowed the history has left the most recent events
C19_Witness ==
    /\ lastOp = "publish_returns"
    /\ Len(bus.published) = EventHistoryMax + 1
    /\ Len(events) = EventHistoryKeep
    /\ events[1].data = EventHistoryMax + 1 - EventHistoryKeep + 1

\* C20: a publish() whose handlers have ended has returned to its caller,
\* whatever handler raised; its calls were the handlers subscribed to the
\* event's type, each once per subscription and in order, each with the
\* event's data, and each has run to its end or to its failure
C20_HandlerFailureIsolated ==
    lastOp = "publish_returns" =>
        LET event == bus.published[Len(bus.published)]
        IN  /\ bus.outcome = "returned"
            /\ Len(bus.calls) = Len(bus.subscribers[event.type])
            /\ \A i \in 1..Len(bus.calls) :
                  /\ bus.calls[i].handler = bus.subscribers[event.type][i]
                  /\ bus.calls[i].data = event.data
                  /\ bus.calls[i].state \in {"done", "failed"}

\* publish() has returned after one of two handlers of the type raised and
\* the other ran, while another type has a handler that was not called
C20_Witness ==
    /\ lastOp = "publish_returns"
    /\ \E i, j \in 1..Len(bus.calls) :
          /\ bus.calls[i].state = "failed"
          /\ bus.calls[j].state = "done"
          /\ bus.calls[i].handler # bus.calls[j].handler
    /\ \E type \in BusEventTypes :
          /\ type # bus.published[Len(bus.published)].type
          /\ bus.subscribers[type] # <<>>

(***************************************************************************)
(* The registries of the StateManager.                                     *)
(***************************************************************************)
\* C21: what a read of a registry returns for an id is the object as the last
\* add or update for that id stored it, whatever callers did to the objects
\* that earlier reads returned
C21_ReadsReturnCopies ==
    \A reg \in Registries : \A id \in DOMAIN shared[reg] :
        sm_read(shared, reg, id) = shared.stored[reg][id]

(***************************************************************************)
(* add_task with an id that is present.                                    *)
(***************************************************************************)
\* C22: an add_task that adds no new id to the graph leaves the graph as it
\* was: the stored task of every id, and with it every blocks list
C22_DuplicateLeavesGraph ==
    [][lastOp' = "add_task" /\ DOMAIN tasks' = DOMAIN tasks => tasks' = tasks]_vars

(***************************************************************************)
(* create_message of the ClaudeCodeClient.                                 *)
(***************************************************************************)
\* the calls that have taken a task id
StartedCalls == {c \in ClientCallers : client.calls[c].pc # "idle"}

\* the prompt file of the call of c holds the system prompt and the user
\* content of that call
PromptWritten(c) ==
    LET call == client.calls[c]
    IN  /\ task_file(call.task_id) \in DOMAIN client.files
        /\ client.files[task_file(call.task_id)].system = call.system
        /\ client.files[task_file(call.task_id)].user_content = call.user_content

\* a call waits, has returned or has raised only with its prompt file written;
\* two calls never have the same task id; a call has waited no longer than the
\* timeout and one more interval, and raises only when the timeout has passed
ClientStateOk ==
    /\ \A c \in ClientCallers :
          /\ client.calls[c].pc \in {"waiting", "returned", "raised"} => PromptWritten(c)
          /\ client.calls[c].total_waited < Timeout + wait_interval
          /\ client.calls[c].pc = "raised" => client.calls[c].total_waited >= Timeout
          /\ client.calls[c].pc = "returned" => client.calls[c].response # <<>>
    /\ \A c1, c2 \in StartedCalls :
          c1 # c2 => client.calls[c1].task_id # client.calls[c2].task_id

\* a call that starts takes a task id whose prompt file does not exist yet; a
\* call returns only when its own response file holds text that is not blank,
\* and returns that text stripped
ClientStepOk ==
    \A c \in ClientCallers :
        /\ client'.calls[c].pc = "writing" /\ client.calls[c].pc # "writing"
              => task_file(client'.calls[c].task_id) \notin DOMAIN client.files
        /\ client'.calls[c].pc = "returned" /\ client.calls[c].pc # "returned"
              => LET file == response_file(client.calls[c].task_id)
                 IN  /\ client.calls[c].pc = "waiting"
                     /\ file \in DOMAIN client.files
                     /\ strip(client.files[file]) # <<>>
                     /\ client'.calls[c].response = strip(client.files[file])
                     /\ Head(client'.calls[c].response) # " "
                     /\ client'.calls[c].response[Len(client'.calls[c].response)] # " "

\* C23: create_message writes the prompt file before it waits, returns only
\* the stripped non-empty content of its own response file, gives every call
\* its own task id and file pair, and a call that waits ends by returning or
\* by raising APIError once the timeout has passed
C23_CreateMessage ==
    /\ []ClientStateOk
    /\ [][ClientStepOk]_vars
    /\ \A c \in ClientCallers :
          (client.calls[c].pc = "waiting")
              ~> (client.calls[c].pc \in {"returned", "raised"})

\* one call has returned the stripped text of a response file with blanks
\* around it while the other, called concurrently, has raised
C23_Witness ==
    /\ client.calls["k1"].pc = "returned"
    /\ client.calls["k1"].response = <<"x">>
    /\ client.files[response_file(client.calls["k1"].task_id)] = <<" ", "x", " ">>
    /\ client.calls["k2"].pc = "raised"
    /\ client.calls["k2"].task_id # client.calls["k1"].task_id

(***************************************************************************)
(* Ready tasks of equal priority.                                          *)
(***************************************************************************)
\* the size a complexity stands for
ComplexitySize(c) ==
    CASE c = "small" -> 1
      [] c = "medium" -> 2
      [] c = "large" -> 3

\* C24: in the result of get_ready_tasks, of two tasks of equal priority the
\* one of smaller complexity comes first
C24_SmallBeforeLarge ==
    lastOp = "get_ready_tasks" =>
        \A i, j \in 1..Len(ready) :
            /\ i < j
            /\ tasks[ready[i]].priority = tasks[ready[j]].priority
            => ComplexitySize(tasks[ready[i]].complexity)
                   <= ComplexitySize(tasks[ready[j]].complexity)

(***************************************************************************)
(* The frame of mark_task_completed and mark_task_failed, and the          *)
(* dependents of a failed task.                                            *)
(***************************************************************************)
\* the tasks that depend on task id, directly or through other tasks
DependentsOf(ts, id) ==
    {d \in DOMAIN ts : id \in ReachableIn(ts, {d}, Cardinality(DOMAIN ts))}

\* every dependent of a failed task is pending and not ready
FailedBlocksDependents ==
    \A f \in DOMAIN tasks :
        tasks[f].status = "failed" =>
            \A d \in DependentsOf(tasks, f) :
                /\ tasks[d].status = "pending"
                /\ ~is_ready(tasks[d], completed_ids(tasks))
                /\ d \notin Range(get_ready_tasks(tasks, order))

\* a step of mark_task_completed or mark_task_failed changes one task at
\* most, and only its status, agent, error and retry counter; a failed task
\* stays failed
MarkChangesOneTask ==
    /\ lastOp' \in {"mark_task_completed", "mark_task_failed"} =>
          /\ DOMAIN tasks' = DOMAIN tasks
          /\ \E id \in DOMAIN tasks :
                /\ \A other \in DOMAIN tasks \ {id} : tasks'[other] = tasks[other]
                /\ tasks'[id] = [tasks[id] EXCEPT
                                    !.status = tasks'[id].status,
                                    !.assigned_agent_id = tasks'[id].assigned_agent_id,
                                    !.error_message = tasks'[id].error_message,
                                    !.retry_count = tasks'[id].retry_count]
    /\ \A f \in DOMAIN tasks :
          tasks[f].status = "failed" => tasks'[f].status = "failed"

\* C25: mark_task_completed and mark_task_failed change only the named task,
\* and from the moment a task is permanently failed none of its direct or
\* transitive dependents is ready, in progress or completed
C25_FailureStaysLocal == []FailedBlocksDependents /\ [][MarkChangesOneTask]_vars

\* A has failed for good, B depends on A and C on B; get_ready_tasks, called
\* after the failure, has returned no task
C25_Witness ==
    /\ DOMAIN tasks = TaskIds
    /\ tasks["A"].status = "failed"
    /\ DependentsOf(tasks, "A") = {"B", "C"}
    /\ tasks["B"].depends_on = <<"A">>
    /\ lastOp = "get_ready_tasks"
    /\ ready = <<>>

(***************************************************************************)
(* The assignments of one pass.                                            *)
(***************************************************************************)
\* the agents of the first k assignments of a list
ClaimedBefore(asg, k) == {asg[j][2] : j \in 1..(k - 1)}

\* C26: the assignments computed in one pass pair a task only with a capable
\* agent, hold no agent and no task twice, follow the order of the ready list
\* and give each task the first capable available agent that no earlier task
\* claimed, and a ready task is left out only when every capable available
\* agent was claimed by an earlier task
C26_GreedyMatching ==
    lastOp = "match_tasks_to_agents" =>
        LET asg == loop.assignments
            N == Len(asg)
            Capable(t) == {a \in Range(PassAvailable) :
                              tasks[t].type \in agents[a].task_types}
        IN  /\ \A k \in 1..N : tasks[asg[k][1]].type \in agents[asg[k][2]].task_types
            /\ \A j, k \in 1..N : j # k => asg[j][1] # asg[k][1] /\ asg[j][2] # asg[k][2]
            /\ \A j, k \in 1..N :
                  j < k => IndexOf(asg[j][1], PassReady) < IndexOf(asg[k][1], PassReady)
            /\ \A k \in 1..N :
                  LET free == SelectSeq(PassAvailable,
                                  LAMBDA a : /\ a \in Capable(asg[k][1])
                                             /\ a \notin ClaimedBefore(asg, k))
                  IN  /\ asg[k][1] \in Range(PassReady)
                      /\ free # <<>>
                      /\ asg[k][2] = free[1]
            /\ \A i \in 1..Len(PassReady) :
                  (\A k \in 1..N : asg[k][1] # PassReady[i]) =>
                      \A a \in Capable(PassReady[i]) :
                          \E k \in 1..N :
                              /\ asg[k][2] = a
                              /\ IndexOf(asg[k][1], PassReady) < i

\* two agents of the same type were available for three ready tasks of that
\* type: the two tasks of higher priority were paired, in priority order, with
\* the agents in pool order, and the third task was left out
C26_Witness ==
    /\ lastOp = "match_tasks_to_agents"
    /\ Len(PassReady) = 3
    /\ Len(PassAvailable) = 2
    /\ Len(loop.assignments) = 2
    /\ order = <<"A", "B", "C">>
    /\ loop.assignments = <<<<"C", "w1">>, <<"B", "w2">>>>

(***************************************************************************)
(* The in-flight sets when a unit ends its attempt.                        *)
(***************************************************************************)
\* C27: a step that takes a task out of in_progress, to completed, failed or
\* back to pending, leaves the task's id out of processing_task_ids, and the
\* agent that ran it out of processing_agent_ids
C27_IdsRemovedBeforeStatus ==
    [][\A id \in DOMAIN tasks :
          tasks[id].status = "in_progress" /\ tasks'[id].status # "in_progress"
              => /\ id \notin processing_task_ids'
                 /\ tasks[id].assigned_agent_id \notin processing_agent_ids']_vars

(***************************************************************************)
(* The event of a failed attempt.                                          *)
(***************************************************************************)
\* the last event is of the given type: it was published by the step
PublishedNow(type) ==
    /\ Len(events') = Len(events) + 1
    /\ events'[Len(events')].type = type

\* C28: task.retrying is published for a task that was reset to pending and
\* task.failed for a task that is failed, and after the task.failed of a task
\* no task.started and no task.completed of that task is published
C28_EventMatchesTransition ==
    /\ [][/\ PublishedNow("task.retrying")
             => tasks'[events'[Len(events')].task_id].status = "pending"
          /\ PublishedNow("task.failed")
             => tasks'[events'[Len(events')].task_id].status = "failed"]_vars
    /\ [](\A i, j \in 1..Len(events) :
            /\ i < j
            /\ events[i].type = "task.failed"
            /\ events[j].task_id = events[i].task_id
            => events[j].type \notin {"task.started", "task.completed"})

(***************************************************************************)
(* The exits of the execution loop.                                        *)
(***************************************************************************)
\* the step leaves the while loop
LoopExits == loop.exit = "none" /\ loop'.exit # "none"

\* no task is ready, none is in progress and no dispatched unit is running
NothingToDo ==
    /\ PassReady = <<>>
    /\ by_status(tasks, "in_progress") = 0
    /\ AliveUnits = {}

\* C29: the loop leaves otherwise than by the iteration cap exactly when no
\* task is ready, no task is in progress and no dispatched unit is running,
\* and when _execution_loop has returned no dispatched unit is running
C29_ExitOnlyWhenIdle ==
    /\ [][/\ LoopExits /\ loop'.exit # "cap" => NothingToDo
          /\ LoopRuns /\ NothingToDo /\ loop' # loop => LoopExits]_vars
    /\ [](loop.pc \in {"done", "returned"} => AliveUnits = {})

(***************************************************************************)
(* The iteration counter and the report of a run the cap has halted.       *)
(***************************************************************************)
\* the step ends a pass through the loop body: the loop goes to sleep
PassEnds == loop.pc # "sleeping" /\ loop'.pc = "sleeping"

\* a pass adds one to the counter, no other step changes it, and the counter
\* never passes the cap
IterationCounts ==
    /\ PassEnds => loop'.iteration = loop.iteration + 1
    /\ ~PassEnds => loop'.iteration = loop.iteration
    /\ loop'.iteration <= MaxIterations

\* the status execute_prd_file reports for a run that the cap has halted
\* is not the status of a run in which every task succeeded
CapReported ==
    loop.pc = "returned" /\ loop.exit = "cap" =>
        /\ events[Len(events)].type = "execution.completed"
        /\ events[Len(events)].data # "success"

\* C30: every pass through the loop body adds exactly one to the iteration
\* counter, the loop makes no more passes than the cap, and a run that the
\* cap has halted is reported otherwise than a run that completed
C30_CapHaltsAndReports == [][IterationCounts]_vars /\ []CapReported

(***************************************************************************)
(* The results of the attempts.                                            *)
(***************************************************************************)
\* the attempts that have ended: each has published its outcome event
FinishedAttempts ==
    Len(SelectSeq(events, LAMBDA ev : ev.type \in OutcomeEventTypes))

\* C31: as many results are recorded as attempts have ended, an attempt that
\* ended through an exception included, and a step changes task_results only
\* by appending one result
C31_OneResultPerAttempt ==
    /\ [](Len(task_results) = FinishedAttempts)
    /\ [][\/ task_results' = task_results
          \/ /\ Len(task_results') = Len(task_results) + 1
             /\ SubSeq(task_results', 1, Len(task_results)) = task_results]_vars

(***************************************************************************)
(* The agent after an attempt.                                             *)
(***************************************************************************)
\* an execution is under way on agent a: a dispatched unit, or the inline
\* execution of sequential mode, is inside execute_task, awaiting the external
\* call or about to resume after it
Executing(a) ==
    \/ \E u \in Units : u.agent = a /\ u.pc \in {"awaiting_call", "call_done"}
    \/ loop.inline.agent = a /\ loop.inline.pc \in {"awaiting_call", "call_done"}

\* the step in which execute_task returns on agent a
ExecuteTaskReturned(a) == Executing(a) /\ ~Executing(a)'

\* C32: when execute_task returns, for a successful or a failed attempt, the
\* agent is idle, has no current task, is returned by get_available_agents
\* and has one of its two counters increased by one; no agent is ever in
\* status error, and an agent is busy only while an execution is under way
C32_AgentIdleAfterAttempt ==
    /\ [][\A a \in DOMAIN agents :
            ExecuteTaskReturned(a) =>
                /\ agents'[a].status = "idle"
                /\ agents'[a].current_task_id = NoTask
                /\ InSeq(a, get_available_agents(agents'))
                /\ \/ /\ agents'[a].tasks_completed = agents[a].tasks_completed + 1
                      /\ agents'[a].tasks_failed = agents[a].tasks_failed
                   \/ /\ agents'[a].tasks_failed = agents[a].tasks_failed + 1
                      /\ agents'[a].tasks_completed = agents[a].tasks_completed]_vars
    /\ [](\A a \in DOMAIN agents :
            /\ agents[a].status # "error"
            /\ agents[a].status = "busy" => Executing(a))

\* an agent is idle and available again after one failed and one successful
\* attempt
C32_Witness ==
    \E a \in DOMAIN agents :
        /\ agents[a].tasks_failed = 1
        /\ agents[a].tasks_completed = 1
        /\ agents[a].status = "idle"
        /\ agents[a].current_task_id = NoTask
        /\ ~Executing(a)
        /\ InSeq(a, get_available_agents(agents))

(***************************************************************************)
(* The length of an agent's task queue.                                    *)
(***************************************************************************)
\* C33: the task queue of an agent is never longer than the agent's
\* max_concurrent_tasks
C33_QueueWithinCapacity ==
    \A a \in DOMAIN agents :
        Len(agents[a].task_queue) <= agents[a].max_concurrent_tasks

(***************************************************************************)
(* The locks of the components.                                            *)
(***************************************************************************)
\* the locks a coroutine holds
HeldBy(p) == {l \in LockNames : locks.owner[l] = p}

\* C34: the holder of a lock is the coroutine that is running: it does not
\* sleep, wait for a slot of the semaphore, await the external call or wait
\* for another lock, and it holds no second lock; no coroutine waits for a
\* lock whose holder is suspended
C34_LocksNotHeldAcrossWaits ==
    /\ \A l \in LockNames :
          locks.owner[l] # NoProc =>
              /\ locks.running = locks.owner[l]
              /\ locks.waiting[locks.owner[l]] = "running"
    /\ \A p \in Procs : Cardinality(HeldBy(p)) <= 1
    /\ \A p \in Procs :
          locks.waiting[p] \in LockNames =>
              LET holder == locks.owner[locks.waiting[p]]
              IN  holder = NoProc \/ locks.waiting[holder] = "running"

\* one unit sleeps for credit, the other waits for a slot of the semaphore
\* or awaits the external call, the loop is inside get_ready_tasks and holds
\* the lock of the task queue
C34_Witness ==
    /\ locks.waiting["u1"] = "sleep"
    /\ locks.waiting["u2"] \in {"slot", "call"}
    /\ locks.owner["task_queue"] = "loop"
    /\ locks.owner["rate_limiter"] = NoProc

(***************************************************************************)
(* The scopes of the SharedContext.                                        *)
(***************************************************************************)
\* the entries of a scope; a scope that does not exist has none
EntriesOf(X, scope) ==
    IF scope = NoScope THEN X._context
    ELSE IF scope \in DOMAIN X._scopes THEN X._scopes[scope] ELSE NoEntries

\* what a get, has or delete addressed to the scope returns when it looks at
\* the entries of that scope only
ExpectedResult(X, op, key, scope) ==
    LET entries == EntriesOf(X, scope)
    IN  CASE op = "get" -> IF key \in DOMAIN entries THEN entries[key] ELSE Default
          [] op \in {"has", "delete"} ->
                 IF key \in DOMAIN entries THEN "True" ELSE "False"
          [] OTHER -> Default

\* C39: a call addressed to a named scope leaves the global entries as they
\* were and a call on the global scope leaves every scope as it was; get, has
\* and delete return what the entries of the addressed scope alone determine,
\* also when the named scope does not exist
C39_ScopesIsolated ==
    [][LET call == context'.last
       IN  /\ call.scope # NoScope => context'._context = context._context
           /\ call.scope = NoScope => context'._scopes = context._scopes
           /\ call.result = ExpectedResult(context, call.op, call.key, call.scope)]_vars

(***************************************************************************)
(* Dependencies on ids that are not in the graph.                          *)
(***************************************************************************)
\* C35: a pending task whose dependencies that are in the graph are all
\* completed is ready, whatever ids that are not in the graph its depends_on
\* names
C35_AbsentDependencyIgnored ==
    \A id \in DOMAIN tasks :
        /\ tasks[id].status = "pending"
        /\ \A d \in DependsOnPresent(tasks, id) : tasks[d].status = "completed"
        => /\ is_ready(tasks[id], completed_ids(tasks))
           /\ id \in Range(get_ready_tasks(tasks, order))

(***************************************************************************)
(* The levels of the two buckets.                                          *)
(***************************************************************************)
\* the capacities of the buckets, in the unit of the levels
RequestCapacity == limiter.config.max_requests_per_minute * IntervalTicks
TokenCapacity == limiter.config.max_tokens_per_minute * IntervalTicks

\* both levels lie between 0 and the capacity of their bucket
LevelsWithinCapacity ==
    /\ 0 <= limiter.request_tokens /\ limiter.request_tokens <= RequestCapacity
    /\ 0 <= limiter.token_tokens /\ limiter.token_tokens <= TokenCapacity

\* a step with a debit takes one request credit and the estimated cost from
\* the refilled levels, which held that much; a step without a debit lowers
\* no level; a step in which a caller releases changes no level
LevelsStep ==
    LET L1 == refill_token_tokens(refill_request_tokens(limiter))
    IN  /\ limiter'.acquired = limiter.acquired + 1
            => \E c \in Callers :
                  LET cost == limiter'.callers[c].estimated_tokens * IntervalTicks
                  IN  /\ limiter.callers[c].pc \in {"idle", "sleeping"}
                      /\ limiter'.callers[c].pc \in {"holding", "waiting_slot"}
                      /\ L1.request_tokens >= IntervalTicks
                      /\ L1.token_tokens >= cost
                      /\ cost > 0
                      /\ limiter'.request_tokens = L1.request_tokens - IntervalTicks
                      /\ limiter'.token_tokens = L1.token_tokens - cost
        /\ limiter'.acquired # limiter.acquired + 1
            => /\ limiter'.acquired = limiter.acquired
               /\ limiter'.request_tokens >= limiter.request_tokens
               /\ limiter'.token_tokens >= limiter.token_tokens
        /\ (\E c \in Callers : limiter.callers[c].pc = "holding"
                                  /\ limiter'.callers[c].pc = "idle")
            => /\ limiter'.request_tokens = limiter.request_tokens
               /\ limiter'.token_tokens = limiter.token_tokens

\* C36: both bucket levels stay between 0 and their capacity; a debit is made
\* only from a request bucket of at least one credit and a volume bucket of at
\* least the estimated cost, on both buckets in the same step; release()
\* changes neither level
C36_LevelsWithinCapacity == []LevelsWithinCapacity /\ [][LevelsStep]_vars

\* a caller has slept for credit, was debited after the refill and has
\* released; the request bucket is below one credit and the volume bucket is
\* below its capacity and not empty
C36_Witness ==
    /\ limiter.now > 0
    /\ limiter.acquired >= 2
    /\ 0 < limiter.token_tokens /\ limiter.token_tokens < TokenCapacity
    /\ limiter.request_tokens < IntervalTicks
    /\ \E c \in Callers : /\ limiter.callers[c].pc = "idle"
                          /\ limiter.callers[c].wake_at > 0
                          /\ limiter.callers[c].estimated_tokens > 0

(***************************************************************************)
(* Calls of acquire() return.                                              *)
(***************************************************************************)
\* the caller is inside acquire(): asleep for credit, or debited and waiting
\* for a slot
InsideAcquire(c) == limiter.callers[c].pc \in {"sleeping", "waiting_slot", "woken"}

\* C37: with time advancing, fair scheduling and every holder releasing its
\* slot, every call of acquire() returns, whatever its estimated cost
C37_AcquireReturns ==
    \A c \in Callers : InsideAcquire(c) ~> (limiter.callers[c].pc = "holding")

(***************************************************************************)
(* The tasks in progress and the in-flight sets.                           *)
(***************************************************************************)
\* the tasks in progress
InProgress == {id \in DOMAIN tasks : tasks[id].status = "in_progress"}

\* every task in progress has an assigned agent, and it and its agent are in
\* the in-flight sets
InProgressInFlight ==
    \A id \in InProgress :
        /\ tasks[id].assigned_agent_id # NoAgent
        /\ id \in processing_task_ids
        /\ tasks[id].assigned_agent_id \in processing_agent_ids

\* no two tasks in progress are assigned to one agent
InProgressAgentsDiffer ==
    \A id1, id2 \in InProgress :
        id1 # id2 => tasks[id1].assigned_agent_id # tasks[id2].assigned_agent_id

\* C38: in parallel mode every task in progress has an assigned agent, its id
\* is in processing_task_ids and its agent's id in processing_agent_ids, and
\* two tasks in progress never have the same assigned agent
C38_InProgressIsInFlight ==
    parallel => InProgressInFlight /\ InProgressAgentsDiffer

\* two tasks are in progress at two agents in parallel mode
C38_Witness ==
    /\ parallel
    /\ Cardinality(InProgress) = 2
    /\ Cardinality({tasks[id].assigned_agent_id : id \in InProgress}) = 2
    /\ InProgress \subseteq processing_task_ids

(***************************************************************************)
(* The status a run reports.                                               *)
(***************************************************************************)
\* the status in the payload of execution.completed, the last event of a run
\* that has returned
FinalStatus == events[Len(events)].data

\* every task of the graph has ended completed
AllCompleted == \A id \in DOMAIN tasks : tasks[id].status = "completed"

\* C40: the final status of a run that has returned is success if and only
\* if every task of the graph ended completed
C40_SuccessIffAllCompleted ==
    loop.pc = "returned" =>
        /\ events[Len(events)].type = "execution.completed"
        /\ (FinalStatus = "success") <=> AllCompleted

(***************************************************************************)
(* The start of a run.                                                     *)
(***************************************************************************)
EventTypesOf(h) == {h[i].type : i \in 1..Len(h)}

\* nothing has been scheduled: every task is pending and unassigned, no unit
\* exists, no id is in flight, no result and no task event exists
NothingScheduled ==
    /\ \A id \in DOMAIN tasks :
          tasks[id].status = "pending" /\ tasks[id].assigned_agent_id = NoAgent
    /\ running_tasks = EmptyBag
    /\ processing_task_ids = {} /\ processing_agent_ids = {}
    /\ task_results = <<>>
    /\ readyq = <<>>
    /\ EventTypesOf(events) \subseteq {"execution.started", "execution.failed"}

\* C11: a run whose task graph has a dependency cycle never enters the
\* execution loop: once past validation it is aborted, nothing has been
\* scheduled, its last event is execution.failed and execution.completed is
\* never published; and no state of such a run has anything scheduled
C11_CycleAbortsBeforeLoop ==
    HasCycle(tasks) =>
        /\ loop.pc \in {"start", "aborted"}
        /\ loop.iteration = 0
        /\ NothingScheduled
        /\ "execution.completed" \notin EventTypesOf(events)
        /\ loop.pc = "aborted" =>
              /\ events[Len(events)].type = "execution.failed"
              /\ validation.raised

\* the ring of three tasks has been refused
C11_Witness ==
    /\ loop.pc = "aborted"
    /\ Len(order) = 3
    /\ HasCycle(tasks)
    /\ events[Len(events)].type = "execution.failed"

====
